---- MODULE Spec2Model ----
(***************************************************************************)
(* Model of the mindgame rules engine: the board functions of              *)
(* src/lib/game.ts and the server entry points of src/app/actions.ts       *)
(* (hostGame, makeMove, swapMove, undoAction, commitTurn) acting on the    *)
(* GameState stored for one game id.                                       *)
(*                                                                         *)
(* Representation.  A Board is a function from positions <<r, c>> to       *)
(* cells.  A cell is a record [type, effects, aftershock]; the opaque id   *)
(* of a cell has no effect on any rule and is left out.  effects is the    *)
(* set of the entries of the effects array (the code only tests            *)
(* membership, emptiness and filters by value).  An optional field         *)
(* (aftershock, pendingSwap, turnLimit) is a sequence of length 0          *)
(* (undefined) or 1 (the value).                                           *)
(***************************************************************************)
EXTENDS Integers, Sequences, FiniteSets, TLC

\* ------------------------------------------------------------------------
\* Bounds of the model
\* ------------------------------------------------------------------------
\* Side length of the square board (boardSize).
Size == 3

\* roundLimit of the difficulty configuration, scaled to the board.
RoundLimit == 2

\* A game without a turn limit is explored for this many turns.
MaxOpenTurns == 2

\* Starting resistance stones (numResistance).
NumResistance == 2

\* ------------------------------------------------------------------------
\* Types (src/types/game.ts)
\* ------------------------------------------------------------------------
StoneType == {"black", "white", "resistance", "empty", "collapse"}

SpecialEffect == {"empathy", "control", "aggression", "manipulation"}

Player == {"black", "white"}

Rows == 0 .. (Size - 1)

Pos == Rows \X Rows

\* Row-major scan order of the nested for-loops over r and c.
ScanOrder == [i \in 1 .. (Size * Size) |-> <<(i - 1) \div Size, (i - 1) % Size>>]

None == <<>>

Some(v) == <<v>>

EmptyCell == [type |-> "empty", effects |-> {}, aftershock |-> None]

Abs(x) == IF x < 0 THEN -x ELSE x

Other(p) == IF p = "black" THEN "white" ELSE "black"

\* ------------------------------------------------------------------------
\* Board primitives (src/lib/game.ts)
\* ------------------------------------------------------------------------
\* getNeighbors: up, down, left, right, in that order, in-bounds only.
getNeighbors(r, c, size) ==
    (IF r > 0 THEN << <<r - 1, c>> >> ELSE <<>>) \o
    (IF r < size - 1 THEN << <<r + 1, c>> >> ELSE <<>>) \o
    (IF c > 0 THEN << <<r, c - 1>> >> ELSE <<>>) \o
    (IF c < size - 1 THEN << <<r, c + 1>> >> ELSE <<>>)

Range(s) == {s[i] : i \in 1 .. Len(s)}

NeighborSet(p) == Range(getNeighbors(p[1], p[2], Size))

\* board.length: the number of rows of the board.
boardLength(board) == Cardinality({p \in DOMAIN board : p[2] = 0})

\* The neighbours of p on a board of the board's own size.
neighborsOn(board, p) == Range(getNeighbors(p[1], p[2], boardLength(board)))

isWhiteResistance(t) == t = "white" \/ t = "resistance"

\* createInitialBoard: all cells empty, then numResistance distinct random
\* cells become resistance.  resPositions is the set the random draws pick.
createInitialBoard(resPositions) ==
    [p \in Pos |-> IF p \in resPositions
                   THEN [EmptyCell EXCEPT !.type = "resistance"]
                   ELSE EmptyCell]

\* isNeutralized, case 1 and the shared prelude; opposing-neighbour test.
isNeighborOpponent(board, p, n) ==
    LET myOpponent == IF board[p].type = "black" THEN "white" ELSE "black"
    IN  \/ board[n].type = myOpponent
        \/ (myOpponent = "white" /\ board[n].type = "resistance")

\* A control stone is neutralized by any adjacent opposing control stone.
controlNeutralized(board, p) ==
    \E n \in neighborsOn(board, p) :
        "control" \in board[n].effects /\ isNeighborOpponent(board, p, n)

\* isNeutralized with case 1 treated like case 2: a control stone counts
\* only an opposing control stone that is itself not neutralized.
isNeutralizedByActiveOnly(board, r, c) ==
    LET p == <<r, c>>
        controlNeighbors == {n \in neighborsOn(board, p) : "control" \in board[n].effects}
    IN  IF board[p].type = "empty" THEN FALSE
        ELSE IF controlNeighbors = {} THEN FALSE
        ELSE \E cn \in controlNeighbors :
                 /\ isNeighborOpponent(board, p, cn)
                 /\ ~ (IF board[cn].type = "empty" THEN FALSE
                       ELSE controlNeutralized(board, cn))

\* isNeutralized: the recursion of case 2 only ever reaches control stones,
\* which are decided by case 1.
isNeutralized(board, r, c) ==
    LET p == <<r, c>>
        controlNeighbors == {n \in neighborsOn(board, p) : "control" \in board[n].effects}
    IN  IF board[p].type = "empty" THEN FALSE
        ELSE IF controlNeighbors = {} THEN FALSE
        ELSE IF "control" \in board[p].effects
             THEN \E n \in controlNeighbors : isNeighborOpponent(board, p, n)
             ELSE \E cn \in controlNeighbors :
                      /\ isNeighborOpponent(board, p, cn)
                      /\ ~ (IF board[cn].type = "empty" THEN FALSE
                            ELSE controlNeutralized(board, cn))

\* ------------------------------------------------------------------------
\* Go capture logic (src/lib/game.ts, checkCaptures)
\* ------------------------------------------------------------------------
\* The stone at n joins the group of a stone of type groupType.
groupMatch(groupType, nType) ==
    IF isWhiteResistance(groupType) THEN isWhiteResistance(nType)
    ELSE nType = groupType

\* The while-loop of getGroupInfo: queue is the BFS queue, visited the
\* localVisited set, group the members popped so far (in BFS order).
RECURSIVE groupLoop(_, _, _, _, _, _)
groupLoop(b, groupType, queue, visited, group, hasLiberties) ==
    IF queue = <<>> THEN [group |-> group, hasLiberties |-> hasLiberties]
    ELSE LET curr == Head(queue)
             neighbors == getNeighbors(curr[1], curr[2], Size)
             fresh == SelectSeq(neighbors,
                         LAMBDA n : /\ b[n].type # "empty"
                                    /\ groupMatch(groupType, b[n].type)
                                    /\ n \notin visited)
             lib == \E i \in 1 .. Len(neighbors) : b[neighbors[i]].type = "empty"
         IN  groupLoop(b, groupType, Tail(queue) \o fresh,
                       visited \cup Range(fresh), Append(group, curr),
                       hasLiberties \/ lib)

getGroupInfo(b, r, c) ==
    groupLoop(b, b[<<r, c>>].type, << <<r, c>> >>, {<<r, c>>}, <<>>, FALSE)

\* group.forEach of a captured group: record each stone, then empty it.
RECURSIVE removeGroup(_, _, _, _)
removeGroup(b, destroyed, group, i) ==
    IF i > Len(group) THEN [board |-> b, destroyed |-> destroyed]
    ELSE LET p == group[i]
         IN  removeGroup([b EXCEPT ![p].type = "empty", ![p].effects = {}],
                         Append(destroyed, [pos |-> p, type |-> b[p].type]),
                         group, i + 1)

\* A stone of type t belongs to the side `side` (resistance is white's).
ownedBy(side, t) ==
    IF side = "black" THEN t = "black" ELSE isWhiteResistance(t)

\* One capture phase: the row-major sweep over the board that removes every
\* group of `side` without a liberty, on the board as mutated so far.
RECURSIVE capturePhase(_, _, _, _, _)
capturePhase(b, side, visited, destroyed, i) ==
    IF i > Len(ScanOrder) THEN [board |-> b, destroyed |-> destroyed]
    ELSE LET p == ScanOrder[i]
             type == b[p].type
         IN  IF type = "empty" \/ type = "collapse" \/ p \in visited
                THEN capturePhase(b, side, visited, destroyed, i + 1)
             ELSE IF ownedBy(side, type)
                THEN LET info == getGroupInfo(b, p[1], p[2])
                         seen == visited \cup Range(info.group)
                     IN  IF ~ info.hasLiberties
                            THEN LET res == removeGroup(b, destroyed, info.group, 1)
                                 IN  capturePhase(res.board, side, seen,
                                                  res.destroyed, i + 1)
                            ELSE capturePhase(b, side, seen, destroyed, i + 1)
             ELSE capturePhase(b, side, visited, destroyed, i + 1)

\* checkCaptures with the order of its two phases given: first, then second.
capturesInOrder(board, first, second) ==
    LET phase1 == capturePhase(board, first, {}, <<>>, 1)
    IN  capturePhase(phase1.board, second, {}, phase1.destroyed, 1)

\* checkCaptures with its two phases in the other order: the groups of
\* lastPlayer are examined before the opponent's dead groups are removed.
checkCapturesPlayerFirst(board, lastPlayer) ==
    capturesInOrder(board, lastPlayer, Other(lastPlayer))

\* checkCaptures without phase 2: a dead group of lastPlayer stays.
checkCapturesOpponentOnly(board, lastPlayer) ==
    capturePhase(board, Other(lastPlayer), {}, <<>>, 1)

\* checkCaptures: phase 1 removes the opponent's dead groups, phase 2 then
\* removes the dead groups of lastPlayer (suicide).
checkCaptures(board, lastPlayer) ==
    capturesInOrder(board, Other(lastPlayer), lastPlayer)

\* ------------------------------------------------------------------------
\* Spreading effects (src/lib/game.ts)
\* ------------------------------------------------------------------------
\* spreadResistance: the candidates list (white, not neutralized, no effects,
\* adjacent to a resistance stone).
resistanceCandidates(board) ==
    {p \in Pos :
        /\ board[p].type = "white"
        /\ ~ isNeutralized(board, p[1], p[2])
        /\ board[p].effects = {}
        /\ \E n \in NeighborSet(p) : board[n].type = "resistance"}

\* spreadResistance with the random index resolved to `target`.
spreadResistanceAt(board, target) ==
    [board EXCEPT ![target].type = "resistance"]

\* spreadResistance converting every candidate instead of one drawn.
spreadResistanceAll(board) ==
    {[p \in DOMAIN board |->
         IF p \in resistanceCandidates(board)
         THEN [board[p] EXCEPT !.type = "resistance"]
         ELSE board[p]]}

\* spreadResistance: every board the call can return (one per random draw).
spreadResistance(board) ==
    IF resistanceCandidates(board) = {} THEN {board}
    ELSE {spreadResistanceAt(board, t) : t \in resistanceCandidates(board)}

\* spreadEmpathy: the owner test of the scan.
empathyOwner(activePlayer, t) ==
    IF activePlayer = "black" THEN t = "black" ELSE isWhiteResistance(t)

\* spreadEmpathy: the isNeutral helper.
isNeutral(board, p) ==
    /\ board[p].type # "empty"
    /\ board[p].type # "resistance"
    /\ board[p].effects = {}

\* The toConvert set without the isNeutralized guard on the empathy stone.
empathyTargetsOfAnyStone(board, activePlayer) ==
    {n \in Pos :
        /\ isNeutral(board, n)
        /\ \E p \in NeighborSet(n) :
              /\ empathyOwner(activePlayer, board[p].type)
              /\ "empathy" \in board[p].effects}

\* spreadEmpathy: the toConvert set, computed on the input board.
empathyTargets(board, activePlayer) ==
    {n \in Pos :
        /\ isNeutral(board, n)
        /\ \E p \in NeighborSet(n) :
              /\ empathyOwner(activePlayer, board[p].type)
              /\ "empathy" \in board[p].effects
              /\ ~ isNeutralized(board, p[1], p[2])}

spreadEmpathy(board, activePlayer) ==
    LET toConvert == empathyTargets(board, activePlayer)
    IN  [p \in Pos |->
            IF p \in toConvert
            THEN [board[p] EXCEPT !.type = activePlayer,
                                  !.effects = @ \cup {"empathy"}]
            ELSE board[p]]

\* ------------------------------------------------------------------------
\* Aggression (src/lib/game.ts, triggerAggression)
\* ------------------------------------------------------------------------
Directions == << <<0, 1>>, <<1, 0>>, <<0, -1>>, <<-1, 0>> >>

\* The walk that steps over an empty cell instead of stopping there.
RECURSIVE beamWalkOverEmpty(_, _, _, _, _)
beamWalkOverEmpty(board, currR, currC, d, path) ==
    IF ~ (/\ currR >= 0 /\ currR < boardLength(board)
          /\ currC >= 0 /\ currC < boardLength(board)) THEN <<>>
    ELSE LET cell == board[<<currR, currC>>]
         IN  IF cell.type = "collapse" THEN <<>>
             ELSE IF cell.type = "empty"
                THEN beamWalkOverEmpty(board, currR + d[1], currC + d[2], d, path)
             ELSE IF "aggression" \in cell.effects THEN path
             ELSE beamWalkOverEmpty(board, currR + d[1], currC + d[2], d,
                                    Append(path, [pos |-> <<currR, currC>>,
                                                  type |-> cell.type]))

\* The while-loop of one direction: the cells to destroy, in walking order;
\* empty when the walk ends on an empty cell, a collapse cell or the edge.
RECURSIVE beamWalk(_, _, _, _, _)
beamWalk(board, currR, currC, d, path) ==
    IF ~ (/\ currR >= 0 /\ currR < boardLength(board)
          /\ currC >= 0 /\ currC < boardLength(board)) THEN <<>>
    ELSE LET cell == board[<<currR, currC>>]
         IN  IF cell.type = "empty" \/ cell.type = "collapse" THEN <<>>
             ELSE IF "aggression" \in cell.effects THEN path
             ELSE beamWalk(board, currR + d[1], currC + d[2], d,
                           Append(path, [pos |-> <<currR, currC>>,
                                         type |-> cell.type]))

\* The destroyed list with only the first two directions walked (right and
\* down), the two the code labels horizontal and vertical.
beamDestroyedForward(board, pos) ==
    beamWalk(board, pos[1] + 0, pos[2] + 1, Directions[1], <<>>) \o
    beamWalk(board, pos[1] + 1, pos[2] + 0, Directions[2], <<>>)

\* The destroyed list of an active aggression stone at pos: the paths of the
\* four directions, each walked on the input board.
beamDestroyed(board, pos) ==
    beamWalk(board, pos[1] + 0, pos[2] + 1, Directions[1], <<>>) \o
    beamWalk(board, pos[1] + 1, pos[2] + 0, Directions[2], <<>>) \o
    beamWalk(board, pos[1] + 0, pos[2] - 1, Directions[3], <<>>) \o
    beamWalk(board, pos[1] - 1, pos[2] + 0, Directions[4], <<>>)

triggerAggression(board, pos) ==
    IF "aggression" \notin board[pos].effects
        THEN [board |-> board, destroyed |-> <<>>]
    ELSE IF isNeutralized(board, pos[1], pos[2])
        THEN [board |-> board, destroyed |-> <<>>]
    ELSE LET destroyed == beamDestroyed(board, pos)
             hit == {destroyed[i].pos : i \in 1 .. Len(destroyed)}
         IN  [board |-> [p \in DOMAIN board |->
                            IF p \in hit
                            THEN [board[p] EXCEPT !.type = "empty",
                                                  !.effects = {}]
                            ELSE board[p]],
              destroyed |-> destroyed]

\* ------------------------------------------------------------------------
\* Resolution event: collapse and aftershock (src/lib/game.ts)
\* ------------------------------------------------------------------------
\* uniqueMap.set per entry: a repeated position keeps its place in the
\* insertion order and takes the later entry as its value.
RECURSIVE uniqueLoop(_, _, _)
uniqueLoop(list, i, acc) ==
    IF i > Len(list) THEN acc
    ELSE LET p == list[i]
             at == {k \in 1 .. Len(acc) : acc[k].pos = p.pos}
         IN  IF at = {} THEN uniqueLoop(list, i + 1, Append(acc, p))
             ELSE uniqueLoop(list, i + 1,
                             [acc EXCEPT ![CHOOSE k \in at : TRUE] = p])

uniqueDestroyed(destroyedList) == uniqueLoop(destroyedList, 1, <<>>)

RECURSIVE sumCoord(_, _, _)
sumCoord(list, k, i) ==
    IF i > Len(list) THEN 0 ELSE list[i].pos[k] + sumCoord(list, k, i + 1)

\* Manhattan distance of q to the centre (sumR / n, sumC / n), times n.
scaledDist(list, q) ==
    Abs(Len(list) * q[1] - sumCoord(list, 1, 1)) +
    Abs(Len(list) * q[2] - sumCoord(list, 2, 1))

\* The closest tile; ties by lowest column, then lowest row.
closerOrEqual(list, a, b) ==
    \/ scaledDist(list, a) < scaledDist(list, b)
    \/ /\ scaledDist(list, a) = scaledDist(list, b)
       /\ (a[2] < b[2] \/ (a[2] = b[2] /\ a[1] <= b[1]))

\* The closest tile with the tie taken from the other end of the candidates.
collapseTargetLastTie(list) ==
    CHOOSE a \in Pos : \A b \in Pos :
        \/ scaledDist(list, a) < scaledDist(list, b)
        \/ /\ scaledDist(list, a) = scaledDist(list, b)
           /\ (a[2] > b[2] \/ (a[2] = b[2] /\ a[1] >= b[1]))

collapseTarget(list) ==
    CHOOSE a \in Pos : \A b \in Pos : closerOrEqual(list, a, b)

\* Destroyed count from which a collapse is created.
CollapseThreshold == 4

\* collapsePos: None, or the position that becomes a collapse cell.
collapsePosOf(unique) ==
    IF Len(unique) >= CollapseThreshold THEN Some(collapseTarget(unique)) ELSE None

victimPlayer(t) == IF t = "black" THEN "black" ELSE "white"

\* Step 4 & 6: aftershock on every destroyed position but the collapse one.
RECURSIVE markAftershocks(_, _, _, _, _)
markAftershocks(b, unique, collapsePos, turnCount, i) ==
    IF i > Len(unique) THEN b
    ELSE LET p == unique[i]
         IN  IF collapsePos # None /\ collapsePos[1] = p.pos
                THEN markAftershocks(b, unique, collapsePos, turnCount, i + 1)
             ELSE markAftershocks(
                     [b EXCEPT ![p.pos] =
                         [type |-> "empty", effects |-> {},
                          aftershock |-> Some([type |-> victimPlayer(p.type),
                                               turnCreated |-> turnCount])]],
                     unique, collapsePos, turnCount, i + 1)

handleResolutionEvent(board, destroyedList, lastPlayer, turnCount) ==
    IF Len(destroyedList) = 0 THEN board
    ELSE LET unique == uniqueDestroyed(destroyedList)
             collapsePos == collapsePosOf(unique)
             collapsed == IF collapsePos = None THEN board
                          ELSE [board EXCEPT ![collapsePos[1]] =
                                   [type |-> "collapse", effects |-> {},
                                    aftershock |-> None]]
         IN  markAftershocks(collapsed, unique, collapsePos, turnCount, 1)

\* ------------------------------------------------------------------------
\* Board evaluation and minimax search (src/lib/game.ts)
\* ------------------------------------------------------------------------
\* The scores of evaluateBoardDeep are multiples of one half (the distance
\* to size / 2); every score below is twice the score of the code, which
\* leaves all comparisons, minima and maxima of minimax as they are.
\*
\* evaluateBoardDeep.getGroupInfo: the group reached from the cells S, where
\* a 'white-resistance' group extends over white and resistance stones and
\* any other group over black stones.
RECURSIVE evalGroup(_, _, _)
evalGroup(board, isWR, S) ==
    LET more == {n \in UNION {NeighborSet(p) : p \in S} :
                    /\ n \notin S
                    /\ IF isWR THEN isWhiteResistance(board[n].type)
                       ELSE board[n].type = "black"}
    IN  IF more = {} THEN S ELSE evalGroup(board, isWR, S \cup more)

evalLibertyCount(board, group) ==
    Cardinality({n \in UNION {NeighborSet(p) : p \in group} :
                    board[n].type = "empty"})

\* The score of one group (doubled).
groupScore(board, isWR, group) ==
    LET count == Cardinality(group)
        libs == evalLibertyCount(board, group)
        resistanceCount == Cardinality({p \in group : board[p].type = "resistance"})
        groupHasEmpathy == \E p \in group : "empathy" \in board[p].effects
    IN  IF isWR
        THEN count * 30
             + (IF libs = 1 THEN -300 ELSE IF libs = 2 THEN 80
                ELSE IF libs >= 3 THEN 200 ELSE 0)
             + resistanceCount * 240
             + (IF groupHasEmpathy THEN 120 ELSE 0)
        ELSE - (count * 50)
             + (IF libs = 0 THEN 800 ELSE 0)
             + (IF libs = 1 THEN 240 ELSE 0)
             + (IF libs >= 3 THEN -120 ELSE 0)

\* The scan over the groups: every cell that is not empty and not visited
\* starts a group, whose members are marked visited.
RECURSIVE groupScan(_, _, _, _)
groupScan(board, i, visited, score) ==
    IF i > Len(ScanOrder) THEN score
    ELSE LET p == ScanOrder[i]
         IN  IF board[p].type = "empty" \/ p \in visited
                THEN groupScan(board, i + 1, visited, score)
             ELSE LET isWR == isWhiteResistance(board[p].type)
                      group == evalGroup(board, isWR, {p})
                  IN  groupScan(board, i + 1, visited \cup group,
                                score + groupScore(board, isWR, group))

\* Positional/strategic bonuses of one cell (doubled).
positionalScore(board, p) ==
    (IF board[p].type = "empty"
     THEN - ((Abs(2 * p[1] - Size) + Abs(2 * p[2] - Size)) * 3) ELSE 0)
    + (IF "control" \in board[p].effects
       THEN (IF isWhiteResistance(board[p].type) THEN 40 ELSE -40) ELSE 0)

RECURSIVE positionalSum(_, _)
positionalSum(board, i) ==
    IF i > Len(ScanOrder) THEN 0
    ELSE positionalScore(board, ScanOrder[i]) + positionalSum(board, i + 1)

evaluateBoardDeep(board) ==
    groupScan(board, 1, {}, 0) + positionalSum(board, 1)

\* Stands for Infinity: larger than any score of a board.
Infinity == 1000000

Max(a, b) == IF a >= b THEN a ELSE b

Min(a, b) == IF a <= b THEN a ELSE b

\* minimax: quickScore of the empty cell m.
quickScore(board, m) ==
    10 * Cardinality({n \in NeighborSet(m) : board[n].type = "black"})
    + 20 * Cardinality({n \in NeighborSet(m) : board[n].type = "resistance"})

\* minimax: validMoves in row-major order.
RECURSIVE validMoves(_, _)
validMoves(board, i) ==
    IF i > Len(ScanOrder) THEN <<>>
    ELSE (IF board[ScanOrder[i]].type = "empty" THEN <<ScanOrder[i]>> ELSE <<>>)
         \o validMoves(board, i + 1)

\* The stable sort by descending quickScore: the first move of the highest
\* score comes first.
RECURSIVE sortMoves(_, _)
sortMoves(board, moves) ==
    IF Len(moves) = 0 THEN <<>>
    ELSE LET best == CHOOSE k \in 1 .. Len(moves) :
                        /\ \A j \in 1 .. Len(moves) :
                              quickScore(board, moves[k]) >= quickScore(board, moves[j])
                        /\ \A j \in 1 .. (k - 1) :
                              quickScore(board, moves[j]) < quickScore(board, moves[k])
             rest == [j \in 1 .. (Len(moves) - 1) |->
                         IF j < best THEN moves[j] ELSE moves[j + 1]]
         IN  <<moves[best]>> \o sortMoves(board, rest)

scoredMoves(board) == sortMoves(board, validMoves(board, 1))

\* The boards handed to the recursive call after the simulated move: one
\* for white's move, one per random draw of spreadResistance for black's.
nextTurnBoards(board, move, isMaximizing) ==
    IF isMaximizing
    THEN {spreadEmpathy(
             checkCaptures([board EXCEPT ![move].type = "white"], "white").board,
             "black")}
    ELSE spreadResistance(
             spreadEmpathy(
                 checkCaptures([board EXCEPT ![move].type = "black"], "black").board,
                 "white"))

\* minimax returns a set: the values the call can return, one per way the
\* random draws of spreadResistance can fall during the search.
RECURSIVE minimax(_, _, _, _, _)
RECURSIVE searchLoop(_, _, _, _, _, _, _, _)
\* The loop with the comparison of the cutoff turned round.
searchLoopCutoffFlipped(board, depth, moves, i, best, alpha, beta, isMaximizing) ==
    IF i > Len(moves) THEN {best}
    ELSE UNION {
           UNION {
             IF isMaximizing
             THEN IF Max(alpha, evalScore) <= beta THEN {Max(best, evalScore)}
                  ELSE searchLoop(board, depth, moves, i + 1,
                                  Max(best, evalScore), Max(alpha, evalScore),
                                  beta, isMaximizing)
             ELSE IF alpha <= Min(beta, evalScore) THEN {Min(best, evalScore)}
                  ELSE searchLoop(board, depth, moves, i + 1,
                                  Min(best, evalScore), alpha,
                                  Min(beta, evalScore), isMaximizing)
             : evalScore \in minimax(nextBoard, depth - 1, alpha, beta,
                                     ~ isMaximizing)}
           : nextBoard \in nextTurnBoards(board, moves[i], isMaximizing)}

searchLoop(board, depth, moves, i, best, alpha, beta, isMaximizing) ==
    IF i > Len(moves) THEN {best}
    ELSE UNION {
           UNION {
             IF isMaximizing
             THEN IF beta <= Max(alpha, evalScore) THEN {Max(best, evalScore)}
                  ELSE searchLoop(board, depth, moves, i + 1,
                                  Max(best, evalScore), Max(alpha, evalScore),
                                  beta, isMaximizing)
             ELSE IF Min(beta, evalScore) <= alpha THEN {Min(best, evalScore)}
                  ELSE searchLoop(board, depth, moves, i + 1,
                                  Min(best, evalScore), alpha,
                                  Min(beta, evalScore), isMaximizing)
             : evalScore \in minimax(nextBoard, depth - 1, alpha, beta,
                                     ~ isMaximizing)}
           : nextBoard \in nextTurnBoards(board, moves[i], isMaximizing)}

minimax(board, depth, alpha, beta, isMaximizing) ==
    IF depth = 0 THEN {evaluateBoardDeep(board)}
    ELSE IF Len(validMoves(board, 1)) = 0 THEN {evaluateBoardDeep(board)}
    ELSE searchLoop(board, depth, scoredMoves(board), 1,
                    IF isMaximizing THEN - Infinity ELSE Infinity,
                    alpha, beta, isMaximizing)

\* ------------------------------------------------------------------------
\* Win check (src/app/actions.ts)
\* ------------------------------------------------------------------------
\* Total annihilation is active once turnCount exceeds this.
AnnihilationAfter == 1

\* checkWin without the rule that black wins once no resistance is left.
checkWinIgnoringResistance(board, currentPlayer, turnCount) ==
    LET emptyCells == \E p \in Pos : board[p].type = "empty"
        blackCount == Cardinality({p \in Pos : board[p].type = "black"})
        whiteCount == Cardinality({p \in Pos : isWhiteResistance(board[p].type)})
    IN  IF ~ emptyCells /\ currentPlayer = "black"
            THEN [gameOver |-> TRUE, winner |-> "white"]
        ELSE IF turnCount > AnnihilationAfter /\ blackCount = 0
            THEN [gameOver |-> TRUE, winner |-> "white"]
        ELSE IF turnCount > AnnihilationAfter /\ whiteCount = 0
            THEN [gameOver |-> TRUE, winner |-> "black"]
        ELSE [gameOver |-> FALSE, winner |-> "null"]

\* checkWin with total annihilation active one turn count later.
checkWinAnnihilationLate(board, currentPlayer, turnCount) ==
    LET resistanceFound == \E p \in Pos : board[p].type = "resistance"
        emptyCells == \E p \in Pos : board[p].type = "empty"
        blackCount == Cardinality({p \in Pos : board[p].type = "black"})
        whiteCount == Cardinality({p \in Pos : isWhiteResistance(board[p].type)})
    IN  IF ~ resistanceFound THEN [gameOver |-> TRUE, winner |-> "black"]
        ELSE IF ~ emptyCells /\ currentPlayer = "black"
            THEN [gameOver |-> TRUE, winner |-> "white"]
        ELSE IF turnCount > AnnihilationAfter + 1 /\ blackCount = 0
            THEN [gameOver |-> TRUE, winner |-> "white"]
        ELSE IF turnCount > AnnihilationAfter + 1 /\ whiteCount = 0
            THEN [gameOver |-> TRUE, winner |-> "black"]
        ELSE [gameOver |-> FALSE, winner |-> "null"]

checkWin(board, currentPlayer, turnCount) ==
    LET resistanceFound == \E p \in Pos : board[p].type = "resistance"
        emptyCells == \E p \in Pos : board[p].type = "empty"
        blackCount == Cardinality({p \in Pos : board[p].type = "black"})
        whiteCount == Cardinality({p \in Pos : isWhiteResistance(board[p].type)})
    IN  IF ~ resistanceFound THEN [gameOver |-> TRUE, winner |-> "black"]
        ELSE IF ~ emptyCells /\ currentPlayer = "black"
            THEN [gameOver |-> TRUE, winner |-> "white"]
        ELSE IF turnCount > AnnihilationAfter /\ blackCount = 0
            THEN [gameOver |-> TRUE, winner |-> "white"]
        ELSE IF turnCount > AnnihilationAfter /\ whiteCount = 0
            THEN [gameOver |-> TRUE, winner |-> "black"]
        ELSE [gameOver |-> FALSE, winner |-> "null"]

\* ------------------------------------------------------------------------
\* Game creation (src/app/actions.ts, hostGame)
\* ------------------------------------------------------------------------
\* playerInventory: counts of the standard inventory.
PlayerAggression == 2

PlayerOther == 1

playerInventory ==
    [aggression |-> PlayerAggression, manipulation |-> PlayerOther,
     control |-> PlayerOther, empathy |-> PlayerOther]

\* buildNpcInventory: maxTotal stones spread over the sequence `types`.
buildNpcInventory(types, maxTotal) ==
    LET zero == [e \in SpecialEffect |-> 0]
        n == Len(types)
        idx(e) == CHOOSE i \in 1 .. n : types[i] = e
        spread == [e \in SpecialEffect |->
                     IF e \in Range(types)
                     THEN (maxTotal \div n) + (IF idx(e) - 1 < maxTotal % n THEN 1 ELSE 0)
                     ELSE 0]
    IN  IF n = 0 \/ maxTotal = 0 THEN zero
        ELSE IF spread["aggression"] = 1 THEN [spread EXCEPT !["aggression"] = 2]
        ELSE spread

\* The initial GameState of hostGame: resPositions are the cells drawn by
\* createInitialBoard, turnLimit and npcInventory come from the difficulty
\* configuration (turnLimit None and the player's inventory without one).
hostGame(resPositions, turnLimit, npcInventory) ==
    [board |-> createInitialBoard(resPositions),
     turn |-> "black",
     history |-> <<>>,
     gameOver |-> FALSE,
     winner |-> "null",
     moveConfirmed |-> FALSE,
     inventory |-> [black |-> playerInventory, white |-> npcInventory],
     pendingSwap |-> None,
     swappedPositions |-> None,
     turnCount |-> 0,
     turnLimit |-> turnLimit]

\* A rejected call: null is returned and nothing is saved.
Rejected(state) == [ok |-> FALSE, state |-> state]

Saved(state) == [ok |-> TRUE, state |-> state]

\* The history entry pushed before a change: the state with no history.
historyEntry(state) == [state EXCEPT !.history = <<>>]

\* The win status applied to a new state of makeMove or swapMove.
withWinStatus(newState, winStatus) ==
    IF winStatus.gameOver
    THEN [newState EXCEPT !.gameOver = TRUE, !.winner = winStatus.winner]
    ELSE newState

\* Aftershocks block for this many turn counts.
AftershockTurns == 2

\* The aftershock check with <= for <: blocks one turn count longer.
aftershockBlocksLonger(state, pos) ==
    LET a == state.board[pos].aftershock
    IN  /\ a # None
        /\ state.turnCount - a[1].turnCreated <= AftershockTurns
        /\ a[1].type = state.turn

\* makeMove: the aftershock check.
aftershockBlocks(state, pos) ==
    LET a == state.board[pos].aftershock
    IN  /\ a # None
        /\ state.turnCount - a[1].turnCreated < AftershockTurns
        /\ a[1].type = state.turn

\* ------------------------------------------------------------------------
\* makeMove (src/app/actions.ts); effect is an effect or "null"
\* ------------------------------------------------------------------------
\* The guard with < for <=: a count of 0 passes.
inventoryLacksBelowZero(inventory, player, effect) ==
    effect # "null" /\ inventory[player][effect] < 0

\* The server-side guard: the player does not own the requested effect.
inventoryLacks(inventory, player, effect) ==
    effect # "null" /\ inventory[player][effect] <= 0

makeMove(state, r, c, effect) ==
    LET pos == <<r, c>>
        player == state.turn
        history == Append(state.history, historyEntry(state))
        newInventory ==
            IF effect # "null"
            THEN [state.inventory EXCEPT ![player][effect] = @ - 1]
            ELSE state.inventory
        newBoard ==
            [state.board EXCEPT ![pos] =
                [type |-> player,
                 effects |-> IF effect # "null" THEN @.effects \cup {effect}
                             ELSE @.effects,
                 aftershock |-> None]]
        isManipulation == effect = "manipulation"
        newState ==
            [state EXCEPT !.board = newBoard,
                          !.inventory = newInventory,
                          !.history = history,
                          !.moveConfirmed = TRUE,
                          !.pendingSwap = IF isManipulation THEN Some(pos) ELSE None,
                          !.swappedPositions = Some(<<>>)]
    IN  IF state.gameOver \/ state.moveConfirmed THEN Rejected(state)
        ELSE IF aftershockBlocks(state, pos) THEN Rejected(state)
        ELSE IF inventoryLacks(state.inventory, player, effect)
            THEN Rejected(state)
        ELSE Saved(withWinStatus(newState,
                                 checkWin(newBoard, player, state.turnCount)))

\* ------------------------------------------------------------------------
\* swapMove (src/app/actions.ts); p1, p2 are <<r1, c1>>, <<r2, c2>>
\* ------------------------------------------------------------------------
isStone(board, p) ==
    p \in Pos /\ board[p].type # "empty" /\ board[p].type # "collapse"

\* The swap that moves only the type: the effects stay with their cells.
swapBoardTypesOnly(board, p1, p2) ==
    LET tempType == board[p1].type
        b1 == [board EXCEPT ![p1].type = board[p2].type]
        b2 == [b1 EXCEPT ![p2].type = tempType]
        b3 == [b2 EXCEPT ![p1].effects = @ \ {"manipulation"}]
        b4 == [b3 EXCEPT ![p2].effects = @ \ {"manipulation"}]
    IN  [b4 EXCEPT ![p1].aftershock = None, ![p2].aftershock = None]

swapBoard(board, p1, p2) ==
    LET tempType == board[p1].type
        tempEffects == board[p1].effects
        b1 == [board EXCEPT ![p1].type = board[p2].type,
                            ![p1].effects = board[p2].effects]
        b2 == [b1 EXCEPT ![p2].type = tempType, ![p2].effects = tempEffects]
        b3 == [b2 EXCEPT ![p1].effects = @ \ {"manipulation"}]
        b4 == [b3 EXCEPT ![p2].effects = @ \ {"manipulation"}]
    IN  [b4 EXCEPT ![p1].aftershock = None, ![p2].aftershock = None]

swapMove(state, p1, p2) ==
    LET newBoard == swapBoard(state.board, p1, p2)
        newState ==
            [state EXCEPT !.board = newBoard,
                          !.history = Append(state.history, historyEntry(state)),
                          !.pendingSwap = None,
                          !.swappedPositions = Some(<<p1, p2>>)]
    IN  IF state.pendingSwap = None THEN Rejected(state)
        ELSE IF ~ isStone(state.board, p1) \/ ~ isStone(state.board, p2)
            THEN Rejected(state)
        ELSE Saved(withWinStatus(newState,
                                 checkWin(newBoard, state.turn, state.turnCount)))

\* ------------------------------------------------------------------------
\* undoAction (src/app/actions.ts)
\* ------------------------------------------------------------------------
\* undoAction that restores the entry but leaves it on the history.
undoActionNoPop(state) ==
    IF Len(state.history) = 0 THEN Rejected(state)
    ELSE Saved([state.history[Len(state.history)] EXCEPT !.history = state.history])

undoAction(state) ==
    IF Len(state.history) = 0 THEN Rejected(state)
    ELSE LET previousState == state.history[Len(state.history)]
             history == SubSeq(state.history, 1, Len(state.history) - 1)
         IN  Saved([previousState EXCEPT !.history = history])

\* ------------------------------------------------------------------------
\* commitTurn (src/app/actions.ts)
\* ------------------------------------------------------------------------
\* isSwapped: the position is one of state.swappedPositions.
isSwapped(state, p) ==
    /\ state.swappedPositions # None
    /\ p \in Range(state.swappedPositions[1])

\* The trigger condition without the ownership and swap tests: every
\* aggression stone fires.
beamTriggeredOfAnySide(state, b, p) ==
    "aggression" \in b[p].effects

\* Step 1, the condition under which the stone at p is triggered.
beamTriggered(state, b, p) ==
    /\ "aggression" \in b[p].effects
    /\ (b[p].type = state.turn \/ isSwapped(state, p))

\* Step 1: the row-major loop that triggers aggression stones, each on the
\* board left by the earlier triggers.
RECURSIVE aggressionLoop(_, _, _, _)
aggressionLoop(state, b, allDestroyed, i) ==
    IF i > Len(ScanOrder) THEN [board |-> b, destroyed |-> allDestroyed]
    ELSE LET p == ScanOrder[i]
         IN  IF beamTriggered(state, b, p)
                THEN LET result == triggerAggression(b, p)
                     IN  aggressionLoop(state, result.board,
                                        allDestroyed \o result.destroyed, i + 1)
             ELSE aggressionLoop(state, b, allDestroyed, i + 1)

\* Steps 1 to 3 up to spreadEmpathy: the board handed to spreadResistance
\* and the cells destroyed so far.
commitSpread(state) ==
    LET nextPlayer == Other(state.turn)
        aggr == aggressionLoop(state, state.board, <<>>, 1)
        cap1 == checkCaptures(aggr.board, state.turn)
    IN  [board |-> spreadEmpathy(cap1.board, nextPlayer),
         destroyed |-> aggr.destroyed \o cap1.destroyed]

\* CLEANUP: aftershocks of at least AftershockTurns turn counts are removed.
expireAftershocks(board, turnCount) ==
    [p \in Pos |->
        IF /\ board[p].aftershock # None
           /\ turnCount - board[p].aftershock[1].turnCreated >= AftershockTurns
        THEN [board[p] EXCEPT !.aftershock = None]
        ELSE board[p]]

\* Step 7: the number of black turns done after this commit.
blackTurnsDone(turnCount) == (turnCount + 2) \div 2

\* The turn limit compared with > for >=: one black turn too many.
turnLimitReachedLate(state, board) ==
    /\ state.turn = "black"
    /\ state.turnLimit # None
    /\ blackTurnsDone(state.turnCount) > state.turnLimit[1]
    /\ \E p \in Pos : board[p].type = "resistance"

\* Step 7: the turn limit gives the game to white.
turnLimitReached(state, board) ==
    /\ state.turn = "black"
    /\ state.turnLimit # None
    /\ blackTurnsDone(state.turnCount) >= state.turnLimit[1]
    /\ \E p \in Pos : board[p].type = "resistance"

\* Steps 4 to 7 on the board returned by spreadResistance: the final board
\* and the game-over status.
commitResolve(state, spreadBoard, destroyedSoFar) ==
    LET nextPlayer == Other(state.turn)
        cap2 == checkCaptures(spreadBoard, nextPlayer)
        resolved == handleResolutionEvent(cap2.board,
                                          destroyedSoFar \o cap2.destroyed,
                                          state.turn, state.turnCount)
        newBoard == expireAftershocks(resolved, state.turnCount)
        finalWinStatus == checkWin(newBoard, nextPlayer, state.turnCount + 1)
    IN  IF ~ finalWinStatus.gameOver /\ turnLimitReached(state, newBoard)
        THEN [board |-> newBoard, gameOver |-> TRUE, winner |-> "white"]
        ELSE [board |-> newBoard, gameOver |-> finalWinStatus.gameOver,
              winner |-> finalWinStatus.winner]

\* The branch of commitTurn taken when the game is already over.
commitAlreadyOver(state) ==
    LET winStatus == checkWin(state.board, state.turn, state.turnCount)
    IN  [board |-> state.board, gameOver |-> winStatus.gameOver,
         winner |-> winStatus.winner]

\* commitState that leaves pendingSwap as it is.
commitStateKeepsSwap(state, outcome) ==
    [state EXCEPT !.board = outcome.board,
                  !.turn = Other(state.turn),
                  !.moveConfirmed = FALSE,
                  !.gameOver = outcome.gameOver,
                  !.winner = outcome.winner,
                  !.turnCount = state.turnCount + 1]

\* commitState that leaves the turn with the side that committed.
commitStateSameTurn(state, outcome) ==
    [state EXCEPT !.board = outcome.board,
                  !.moveConfirmed = FALSE,
                  !.pendingSwap = None,
                  !.gameOver = outcome.gameOver,
                  !.winner = outcome.winner,
                  !.turnCount = state.turnCount + 1]

\* The state commitTurn saves for an outcome [board, gameOver, winner].
commitState(state, outcome) ==
    [state EXCEPT !.board = outcome.board,
                  !.turn = Other(state.turn),
                  !.moveConfirmed = FALSE,
                  !.pendingSwap = None,
                  !.gameOver = outcome.gameOver,
                  !.winner = outcome.winner,
                  !.turnCount = state.turnCount + 1]

\* The outcomes of the resolution pipeline, one per result of the random
\* draw of spreadResistance (which runs only when the turn passes to white).
commitOutcomes(state) ==
    IF ~ checkWin(state.board, state.turn, state.turnCount).gameOver
    THEN LET mid == commitSpread(state)
             spreads == IF Other(state.turn) = "white"
                        THEN spreadResistance(mid.board)
                        ELSE {mid.board}
         IN  {commitResolve(state, b, mid.destroyed) : b \in spreads}
    ELSE {commitAlreadyOver(state)}

\* commitTurn: the set of results the call can have.
commitTurn(state) ==
    IF ~ state.moveConfirmed THEN {Rejected(state)}
    ELSE {Saved(commitState(state, o)) : o \in commitOutcomes(state)}

\* ------------------------------------------------------------------------
\* The stored game as a state machine
\* ------------------------------------------------------------------------
\* store:  the GameState saved under the game id.
\* last:   the entry point whose result was saved last.
\* input:  the arguments drawn for a call of a board function (None in the
\*         specification of the stored game).
\* output: the result of that call, None before it.
VARIABLES store, last, input, output

vars == <<store, last, input, output>>

\* The draws of createInitialBoard explored: NumResistance distinct cells,
\* one in the corner and one in the centre.
ResistanceDraws ==
    {S \in SUBSET Pos : Cardinality(S) = NumResistance /\ S \subseteq {<<0, 0>>, <<1, 1>>}}

\* npcMaxSpecial of the 'easy' difficulty (its npcEffectTypes is empty).
EasyMaxSpecial == 0

\* hostGame configurations explored: an AI game of difficulty 'easy' and a
\* game between two players (no turn limit, both with the full inventory).
Configs ==
    {[turnLimit |-> Some(RoundLimit),
      npcInventory |-> buildNpcInventory(<<>>, EasyMaxSpecial)],
     [turnLimit |-> None, npcInventory |-> playerInventory]}

Effects == SpecialEffect \cup {"null"}

Init ==
    /\ \E resPositions \in ResistanceDraws, cfg \in Configs :
          store = hostGame(resPositions, cfg.turnLimit, cfg.npcInventory)
    /\ last = "hostGame"
    /\ input = None
    /\ output = None

\* A call that returns null saves nothing: it is no step of the store.
\* A game without a turn limit is explored for MaxOpenTurns turns.
MakeMove ==
    /\ store.turnLimit # None \/ store.turnCount < MaxOpenTurns
    /\ \E r \in Rows, c \in Rows, effect \in Effects :
          /\ makeMove(store, r, c, effect).ok
          /\ store' = makeMove(store, r, c, effect).state
    /\ last' = "makeMove"
    /\ UNCHANGED <<input, output>>

SwapMove ==
    /\ \E p1 \in Pos, p2 \in Pos :
          /\ swapMove(store, p1, p2).ok
          /\ store' = swapMove(store, p1, p2).state
    /\ last' = "swapMove"
    /\ UNCHANGED <<input, output>>

UndoAction ==
    /\ undoAction(store).ok
    /\ store' = undoAction(store).state
    /\ last' = "undoAction"
    /\ UNCHANGED <<input, output>>

CommitTurn ==
    /\ \E res \in commitTurn(store) :
          /\ res.ok
          /\ store' = res.state
    /\ last' = "commitTurn"
    /\ UNCHANGED <<input, output>>

Next == MakeMove \/ SwapMove \/ UndoAction \/ CommitTurn

Spec == Init /\ [][Next]_vars

\* ------------------------------------------------------------------------
\* A longer 'easy' game played with plain stones
\* ------------------------------------------------------------------------
\* An AI game whose resistance stones form one group in the corner, long
\* enough for black to take its three liberties: a commit captures the last
\* resistance stones.  Only makeMove(gameId, r, c, null) is called, so no
\* swap is ever pending.
DeepRoundLimit == 3

DeepDraw == {<<0, 0>>, <<0, 1>>}

InitDeep ==
    /\ store = hostGame(DeepDraw, Some(DeepRoundLimit),
                        buildNpcInventory(<<>>, EasyMaxSpecial))
    /\ last = "hostGame"
    /\ input = None
    /\ output = None

MakeMovePlain ==
    /\ \E r \in Rows, c \in Rows :
          /\ makeMove(store, r, c, "null").ok
          /\ store' = makeMove(store, r, c, "null").state
    /\ last' = "makeMove"
    /\ UNCHANGED <<input, output>>

NextDeep == MakeMovePlain \/ UndoAction \/ CommitTurn

SpecDeep == InitDeep /\ [][NextDeep]_vars

\* ------------------------------------------------------------------------
\* checkCaptures as a function of any board
\* ------------------------------------------------------------------------
\* The boards drawn: every cell empty, black or white, and at most one cell
\* replaced by a resistance stone or by a collapse cell.
PlainTypes == {"empty", "black", "white"}

SpecialCells == {None} \cup {Some(<<p, t>>) : p \in Pos, t \in {"resistance", "collapse"}}

captureBoard(types, special) ==
    [p \in Pos |->
        [EmptyCell EXCEPT !.type = IF special # None /\ special[1][1] = p
                                   THEN special[1][2] ELSE types[p]]]

InitCaptures ==
    /\ \E types \in [Pos -> PlainTypes], special \in SpecialCells :
          input = Some([board |-> captureBoard(types, special)])
    /\ output = None
    /\ store = hostGame({}, None, playerInventory)
    /\ last = "hostGame"

CallCheckCaptures ==
    /\ input # None
    /\ output = None
    /\ \E lastPlayer \in Player :
          output' = Some([lastPlayer |-> lastPlayer,
                          result |-> checkCaptures(input[1].board, lastPlayer)])
    /\ UNCHANGED <<store, last, input>>

NextCaptures == CallCheckCaptures

SpecCaptures == InitCaptures /\ [][NextCaptures]_vars

\* ------------------------------------------------------------------------
\* triggerAggression as a function of a board and an origin
\* ------------------------------------------------------------------------
\* Side length of the boards handed to triggerAggression.
BeamSize == 5

BeamRows == 0 .. (BeamSize - 1)

BeamPos == BeamRows \X BeamRows

\* The middle row and the middle column carry the stones.
BeamMid == BeamSize \div 2

stone(t, effects) == [type |-> t, effects |-> effects, aftershock |-> None]

\* The cells drawn for the middle row.
BeamKinds ==
    {EmptyCell, stone("collapse", {}), stone("black", {}), stone("white", {}),
     stone("resistance", {}), stone("black", {"aggression"}),
     stone("white", {"aggression"})}

\* The middle column, apart from its cell on the middle row, is one of:
\* empty; a beam partner at either end with plain stones up to the middle;
\* the same with a control stone of either side next to the middle.
BeamColumns == {"empty", "beams", "control"}

beamColumn(col, r) ==
    IF col = "empty" THEN EmptyCell
    ELSE IF r = 0 THEN stone("white", {"aggression"})
    ELSE IF r = BeamSize - 1 THEN stone("black", {"aggression"})
    ELSE IF col = "control" /\ r = BeamMid - 1 THEN stone("black", {"control"})
    ELSE IF col = "control" /\ r = BeamMid + 1 THEN stone("white", {"control"})
    ELSE IF r < BeamMid THEN stone("black", {})
    ELSE stone("resistance", {})

beamBoard(row, col) ==
    [p \in BeamPos |->
        IF p[1] = BeamMid THEN row[p[2]]
        ELSE IF p[2] = BeamMid THEN beamColumn(col, p[1])
        ELSE EmptyCell]

InitAggression ==
    /\ \E row \in [BeamRows -> BeamKinds], col \in BeamColumns :
          input = Some([board |-> beamBoard(row, col)])
    /\ output = None
    /\ store = hostGame({}, None, playerInventory)
    /\ last = "hostGame"

\* The origin is any cell of the middle row.
CallTriggerAggression ==
    /\ input # None
    /\ output = None
    /\ \E c \in BeamRows :
          output' = Some([pos |-> <<BeamMid, c>>,
                          result |-> triggerAggression(input[1].board,
                                                       <<BeamMid, c>>)])
    /\ UNCHANGED <<store, last, input>>

NextAggression == CallTriggerAggression

SpecAggression == InitAggression /\ [][NextAggression]_vars

\* ------------------------------------------------------------------------
\* The ability functions applied to boards with control stones
\* ------------------------------------------------------------------------
\* The boards drawn hold stones on the centre cell and its four neighbours.
Centre == <<Size \div 2, Size \div 2>>

CrossCells == {Centre} \cup NeighborSet(Centre)

AbilityKinds ==
    {EmptyCell, stone("black", {}), stone("white", {}), stone("resistance", {}),
     stone("black", {"control"}), stone("white", {"control"}),
     stone("black", {"empathy"}), stone("white", {"empathy"}),
     stone("black", {"aggression"}), stone("collapse", {})}

crossBoard(cells) ==
    [p \in Pos |-> IF p \in CrossCells THEN cells[p] ELSE EmptyCell]

InitAbilities ==
    /\ \E cells \in [CrossCells -> AbilityKinds] :
          input = Some([board |-> crossBoard(cells)])
    /\ output = None
    /\ store = hostGame({}, None, playerInventory)
    /\ last = "hostGame"

\* A call of one of the board functions: output is [fn, arg, result].
CallIsNeutralized ==
    /\ input # None
    /\ output = None
    /\ \E p \in CrossCells :
          output' = Some([fn |-> "isNeutralized", arg |-> p,
                          result |-> isNeutralized(input[1].board, p[1], p[2])])
    /\ UNCHANGED <<store, last, input>>

CallSpreadEmpathy ==
    /\ input # None
    /\ output = None
    /\ \E activePlayer \in Player :
          output' = Some([fn |-> "spreadEmpathy", arg |-> activePlayer,
                          result |-> spreadEmpathy(input[1].board, activePlayer)])
    /\ UNCHANGED <<store, last, input>>

CallSpreadResistance ==
    /\ input # None
    /\ output = None
    /\ \E result \in spreadResistance(input[1].board) :
          output' = Some([fn |-> "spreadResistance", arg |-> None,
                          result |-> result])
    /\ UNCHANGED <<store, last, input>>

CallTriggerStone ==
    /\ input # None
    /\ output = None
    /\ \E pos \in CrossCells :
          output' = Some([fn |-> "triggerAggression", arg |-> pos,
                          result |-> triggerAggression(input[1].board, pos)])
    /\ UNCHANGED <<store, last, input>>

NextAbilities ==
    \/ CallIsNeutralized
    \/ CallSpreadEmpathy
    \/ CallSpreadResistance
    \/ CallTriggerStone

SpecAbilities == InitAbilities /\ [][NextAbilities]_vars

\* ------------------------------------------------------------------------
\* handleResolutionEvent as a function of a board and a destroyed list
\* ------------------------------------------------------------------------
\* The destroyed lists drawn name 3, 4 or 5 distinct cells.
DestroyedSizes == {CollapseThreshold - 1, CollapseThreshold, CollapseThreshold + 1}

\* The turn counts drawn.
ResolutionTurns == {1, 2}

DestroyedTypes == <<"black", "white", "resistance">>

\* The cells of S in row-major order.
RECURSIVE inScanOrder(_, _)
inScanOrder(S, i) ==
    IF i > Len(ScanOrder) THEN <<>>
    ELSE (IF ScanOrder[i] \in S THEN <<ScanOrder[i]>> ELSE <<>>) \o
         inScanOrder(S, i + 1)

\* The destroyed list over the cells S: the types rotate through
\* DestroyedTypes starting at `shift`; with `again` the first entry is
\* reported a second time at the end (a cell destroyed twice).
destroyedOver(S, shift, again) ==
    LET cells == inScanOrder(S, 1)
        list == [i \in 1 .. Len(cells) |->
                    [pos |-> cells[i],
                     type |-> DestroyedTypes[((i + shift) % Len(DestroyedTypes)) + 1]]]
    IN  IF again THEN Append(list, list[1]) ELSE list

\* The board at the call: the destroyed cells are empty already, and at
\* most one other cell holds a stone or is a collapse cell.
resolutionBoard(S, special) ==
    [p \in Pos |->
        IF special # None /\ special[1][1] = p /\ p \notin S
        THEN stone(special[1][2], {})
        ELSE EmptyCell]

ResolutionSpecials ==
    {None} \cup {Some(<<p, t>>) : p \in Pos,
                                  t \in {"black", "white", "resistance", "collapse"}}

InitResolution ==
    /\ \E S \in SUBSET Pos, special \in ResolutionSpecials,
          shift \in 1 .. Len(DestroyedTypes), again \in BOOLEAN,
          turnCount \in ResolutionTurns :
          /\ Cardinality(S) \in DestroyedSizes
          /\ input = Some([board |-> resolutionBoard(S, special),
                           destroyedList |-> destroyedOver(S, shift, again),
                           turnCount |-> turnCount])
    /\ output = None
    /\ store = hostGame({}, None, playerInventory)
    /\ last = "hostGame"

CallHandleResolutionEvent ==
    /\ input # None
    /\ output = None
    /\ \E lastPlayer \in Player :
          output' = Some([lastPlayer |-> lastPlayer,
                          result |-> handleResolutionEvent(input[1].board,
                                                           input[1].destroyedList,
                                                           lastPlayer,
                                                           input[1].turnCount)])
    /\ UNCHANGED <<store, last, input>>

NextResolution == CallHandleResolutionEvent

SpecResolution == InitResolution /\ [][NextResolution]_vars

\* ------------------------------------------------------------------------
\* checkWin as a function of a board, the player to move and the turn count
\* ------------------------------------------------------------------------
\* The boards drawn: any type on the centre cell and its four neighbours,
\* and the four corners all empty, all white or all collapse cells.
WinTypes == {"empty", "black", "white", "resistance", "collapse"}

CornerFills == {"empty", "white", "collapse"}

winBoard(types, fill) ==
    [p \in Pos |->
        [EmptyCell EXCEPT !.type = IF p \in CrossCells THEN types[p] ELSE fill]]

\* The turn counts drawn, around the one from which annihilation counts.
WinTurns == AnnihilationAfter .. AnnihilationAfter + 2

InitWin ==
    /\ \E types \in [CrossCells -> WinTypes], fill \in CornerFills :
          input = Some([board |-> winBoard(types, fill)])
    /\ output = None
    /\ store = hostGame({}, None, playerInventory)
    /\ last = "hostGame"

CallCheckWin ==
    /\ input # None
    /\ output = None
    /\ \E currentPlayer \in Player, turnCount \in WinTurns :
          output' = Some([currentPlayer |-> currentPlayer,
                          turnCount |-> turnCount,
                          result |-> checkWin(input[1].board, currentPlayer,
                                              turnCount)])
    /\ UNCHANGED <<store, last, input>>

NextWin == CallCheckWin

SpecWin == InitWin /\ [][NextWin]_vars

\* ------------------------------------------------------------------------
\* One turn of a game in progress: spreadResistance and commitTurn
\* ------------------------------------------------------------------------
\* The stored game at the start of a turn in the second round: stones on
\* the centre cell and its four neighbours, black or white to move.
SpreadKinds ==
    {EmptyCell, stone("white", {}), stone("resistance", {}),
     stone("black", {"control"}), stone("white", {"control"})}

\* turnCount is even when black is to move (black moves first, at 0).
startTurnCount(turn) ==
    IF turn = "black" THEN AnnihilationAfter + 1 ELSE AnnihilationAfter + 2

gameInProgress(board, turn) ==
    [hostGame({}, None, playerInventory) EXCEPT
        !.board = board, !.turn = turn, !.turnCount = startTurnCount(turn),
        !.swappedPositions = Some(<<>>)]

\* What the last commit left: its final checkCaptures found nothing more to
\* remove and its final checkWin did not end the game.
storable(board, turn) ==
    /\ checkCaptures(board, turn).destroyed = <<>>
    /\ ~ checkWin(board, turn, startTurnCount(turn)).gameOver

\* Either the board is handed to spreadResistance, or it is the board of
\* the stored game and the turn is played.
InitSpread ==
    /\ \E cells \in [CrossCells -> SpreadKinds] :
          \/ /\ input = Some([board |-> crossBoard(cells)])
             /\ store = hostGame({}, None, playerInventory)
             /\ last = "hostGame"
          \/ /\ input = None
             /\ \E turn \in Player :
                   /\ storable(crossBoard(cells), turn)
                   /\ store = gameInProgress(crossBoard(cells), turn)
             /\ last = "commitTurn"
    /\ output = None

\* makeMove(gameId, r, c, null) in the turn the game was drawn at.
MakeMoveOnce ==
    /\ input = None
    /\ store.turnCount = startTurnCount(store.turn)
    /\ \E r \in Rows, c \in Rows :
          /\ makeMove(store, r, c, "null").ok
          /\ store' = makeMove(store, r, c, "null").state
    /\ last' = "makeMove"
    /\ UNCHANGED <<input, output>>

NextSpread == CallSpreadResistance \/ MakeMoveOnce \/ CommitTurn

SpecSpread == InitSpread /\ [][NextSpread]_vars

\* ------------------------------------------------------------------------
\* One turn of a game in progress with beam stones of both sides
\* ------------------------------------------------------------------------
\* The stored board at the start of the turn: the middle row holds any of
\* RowKinds, the rows above it are filled with one type and the rows below
\* it with one type.
MidRow == {<<Size \div 2, c>> : c \in Rows}

RowKinds ==
    {EmptyCell, stone("black", {}), stone("white", {}),
     stone("black", {"aggression"}), stone("white", {"aggression"})}

FillTypes == {"empty", "black", "white", "resistance"}

rowBoard(row, above, below) ==
    [p \in Pos |->
        IF p \in MidRow THEN row[p[2]]
        ELSE IF p[1] < Size \div 2 THEN stone(above, {})
        ELSE stone(below, {})]

\* swappedPositions as the commit of the turn before left it: that turn's
\* makeMove set it to [], a swapMove to the two swapped cells.
EarlierSwaps ==
    {Some(<<>>), Some(<< <<Size \div 2, 0>>, <<Size \div 2, Size - 1>> >>)}

InitBeamTurn ==
    /\ \E row \in [Rows -> RowKinds], above \in FillTypes, below \in FillTypes,
          turn \in Player, swapped \in EarlierSwaps :
          /\ storable(rowBoard(row, above, below), turn)
          /\ store = [gameInProgress(rowBoard(row, above, below), turn)
                         EXCEPT !.swappedPositions = swapped]
    /\ input = None
    /\ output = None
    /\ last = "commitTurn"

\* The cells the moves of the turn are drawn from.
TurnCells == MidRow \cup {<<0, Size \div 2>>}

TurnEffects == {"null", "aggression", "manipulation"}

\* makeMove on an empty cell (the client offers no other), in the turn the
\* game was drawn at.
MakeMoveOnEmpty ==
    /\ store.turnCount = startTurnCount(store.turn)
    /\ \E p \in TurnCells, effect \in TurnEffects :
          /\ store.board[p].type = "empty"
          /\ makeMove(store, p[1], p[2], effect).ok
          /\ store' = makeMove(store, p[1], p[2], effect).state
    /\ last' = "makeMove"
    /\ UNCHANGED <<input, output>>

\* swapMove of two distinct cells of TurnCells, named in scan order.
SwapMoveInRow ==
    /\ \E p1 \in TurnCells, p2 \in TurnCells :
          /\ p1[1] < p2[1] \/ (p1[1] = p2[1] /\ p1[2] < p2[2])
          /\ swapMove(store, p1, p2).ok
          /\ store' = swapMove(store, p1, p2).state
    /\ last' = "swapMove"
    /\ UNCHANGED <<input, output>>

NextBeamTurn == MakeMoveOnEmpty \/ SwapMoveInRow \/ CommitTurn

SpecBeamTurn == InitBeamTurn /\ [][NextBeamTurn]_vars

\* ------------------------------------------------------------------------
\* The minimax search as a function: drawn boards, then one call
\* ------------------------------------------------------------------------
MaxSearchDepth == 2

\* The cells drawn freely: the top row and the first two cells of the
\* next row.
SearchCells == {p \in Pos : p[1] = 0 \/ (p[1] = 1 /\ p[2] <= 1)}

SearchKinds ==
    {EmptyCell, stone("white", {}), stone("resistance", {}),
     stone("black", {"empathy"})}

\* What the rows from the third on hold: black stones or nothing.
SearchFills == {"black", "empty"}

searchBoard(cells, fill) ==
    [p \in Pos |->
        IF p \in SearchCells THEN cells[p]
        ELSE IF p[1] >= 2 /\ fill # "empty" THEN stone(fill, {})
        ELSE EmptyCell]

\* getAIDecision hands minimax a board after checkCaptures: no stone on it
\* is without liberties.
InitSearch ==
    /\ \E cells \in [SearchCells -> SearchKinds], fill \in SearchFills :
          /\ checkCaptures(searchBoard(cells, fill), "white").destroyed = <<>>
          /\ checkCaptures(searchBoard(cells, fill), "black").destroyed = <<>>
          /\ input = Some([board |-> searchBoard(cells, fill)])
    /\ output = None
    /\ store = hostGame({}, None, playerInventory)
    /\ last = "hostGame"

\* One call of minimax with the window getAIDecision passes; result is the
\* set of values the call can return.
CallMinimax ==
    /\ input # None
    /\ output = None
    /\ \E depth \in 1 .. MaxSearchDepth, isMaximizing \in BOOLEAN :
          output' = Some([depth |-> depth,
                          isMaximizing |-> isMaximizing,
                          result |-> minimax(input[1].board, depth,
                                             - Infinity, Infinity,
                                             isMaximizing)])
    /\ UNCHANGED <<store, last, input>>

NextSearch == CallMinimax

SpecSearch == InitSearch /\ [][NextSearch]_vars

\* ------------------------------------------------------------------------
\* Behaviour tree runner and its hard filters (src/lib/ai-behavior.ts)
\* ------------------------------------------------------------------------
\* A candidate move is [r, c, effect], effect "null" for a plain stone.
\*
\* boardHash: per cell the first letter of the type followed by the sorted
\* first letters of the effects; ids and aftershocks are left out.
firstLetter(s) ==
    CASE s = "empty" -> "e"
      [] s = "black" -> "b"
      [] s = "white" -> "w"
      [] s = "resistance" -> "r"
      [] s = "collapse" -> "c"
      [] s = "aggression" -> "a"
      [] s = "control" -> "c"
      [] s = "empathy" -> "e"
      [] s = "manipulation" -> "m"

sortedLetters(effects) ==
    LET letters == {firstLetter(e) : e \in effects}
        pick(l) == IF l \in letters THEN <<l>> ELSE <<>>
    IN  pick("a") \o pick("c") \o pick("e") \o pick("m")

boardHash(board) ==
    [p \in DOMAIN board |->
        <<firstLetter(board[p].type)>> \o sortedLetters(board[p].effects)]

isNegationMove(candidate, state) ==
    LET p == <<candidate.r, candidate.c>>
        board == [state.board EXCEPT
                     ![p].type = state.turn,
                     ![p].effects = IF candidate.effect = "null" THEN @
                                    ELSE @ \cup {candidate.effect}]
        first == IF Len(state.history) > 2 THEN Len(state.history) - 1 ELSE 1
    IN  \E i \in first .. Len(state.history) :
           boardHash(state.history[i].board) = boardHash(board)

weakensResistance(candidate, board) ==
    ~ \E n \in NeighborSet(<<candidate.r, candidate.c>>) :
         board[n].type = "resistance" \/ board[n].type = "white"

\* createsAggressionVulnerability: the walk from (cr, cc) in steps of
\* (dr, dc) finds a black aggression stone before the edge, an empty cell or
\* a collapse cell.
RECURSIVE findsAggression(_, _, _, _, _)
findsAggression(board, cr, cc, dr, dc) ==
    IF <<cr, cc>> \notin DOMAIN board THEN FALSE
    ELSE IF board[<<cr, cc>>].type \in {"empty", "collapse"} THEN FALSE
    ELSE IF /\ board[<<cr, cc>>].type = "black"
            /\ "aggression" \in board[<<cr, cc>>].effects THEN TRUE
    ELSE findsAggression(board, cr + dr, cc + dc, dr, dc)

createsAggressionVulnerability(candidate, board) ==
    \E d \in {<<0, 1>>, <<1, 0>>} :
       /\ findsAggression(board, candidate.r + d[1], candidate.c + d[2], d[1], d[2])
       /\ findsAggression(board, candidate.r - d[1], candidate.c - d[2], - d[1], - d[2])

isAdjacentToActiveEmpathy(candidate, board, opponent) ==
    \E n \in NeighborSet(<<candidate.r, candidate.c>>) :
       /\ board[n].type = opponent
       /\ "empathy" \in board[n].effects
       /\ ~ isNeutralized(board, n[1], n[2])

\* [...config].sort((a, b) => b.priority - a.priority): the positions of
\* config in descending priority, equal priorities in the order of config.
RECURSIVE sortByPriority(_, _)
\* The sort with the comparison turned round: ascending priority.
sortByPriorityAscending(config, left) ==
    IF left = {} THEN <<>>
    ELSE LET k == CHOOSE k \in left :
                     \A j \in left :
                        \/ config[j].priority > config[k].priority
                        \/ config[j].priority = config[k].priority /\ k <= j
         IN  <<k>> \o sortByPriority(config, left \ {k})

sortByPriority(config, left) ==
    IF left = {} THEN <<>>
    ELSE LET k == CHOOSE k \in left :
                     \A j \in left :
                        \/ config[j].priority < config[k].priority
                        \/ config[j].priority = config[k].priority /\ k <= j
         IN  <<k>> \o sortByPriority(config, left \ {k})

\* The loop of runBehaviorTree over sorted from position i on. rolls[k] is
\* the draw of Math.random for behaviour k of config in hundredths,
\* generated[k] what its generator returns: None or Some(candidate).
RECURSIVE behaviorLoop(_, _, _, _, _, _)
behaviorLoop(state, config, sorted, i, rolls, generated) ==
    IF i > Len(sorted) THEN None
    ELSE LET k == sorted[i]
             behavior == config[k]
             skip == behaviorLoop(state, config, sorted, i + 1, rolls, generated)
         IN  IF rolls[k] > behavior.triggerChance THEN skip
             ELSE IF generated[k] = None THEN skip
             ELSE LET candidate == generated[k][1]
                  IN  IF state.board[<<candidate.r, candidate.c>>].type # "empty"
                         THEN skip
                      ELSE IF /\ weakensResistance(candidate, state.board)
                              /\ createsAggressionVulnerability(candidate, state.board)
                         THEN skip
                      ELSE IF isNegationMove(candidate, state) THEN skip
                      ELSE IF /\ behavior.priority < 96
                              /\ isAdjacentToActiveEmpathy(
                                     candidate, state.board,
                                     IF state.turn = "black" THEN "white" ELSE "black")
                         THEN skip
                      ELSE Some(candidate)

runBehaviorTree(state, config, rolls, generated) ==
    behaviorLoop(state, config, sortByPriority(config, DOMAIN config), 1,
                 rolls, generated)

\* ------------------------------------------------------------------------
\* Behaviour generators and the default configuration (src/lib/ai-behavior.ts)
\* ------------------------------------------------------------------------
\* A generator is the set of values its call can return, None or
\* Some(candidate), one per draw of randomFrom.
\*
\* getGroupInfo of ai-behavior.ts: the group of the stone at p and its
\* liberties, as sets.
RECURSIVE btGroupFrom(_, _, _)
btGroupFrom(board, groupType, S) ==
    LET more == {n \in UNION {NeighborSet(p) : p \in S} :
                    /\ n \notin S
                    /\ board[n].type # "empty"
                    /\ IF isWhiteResistance(groupType)
                       THEN isWhiteResistance(board[n].type)
                       ELSE board[n].type = groupType}
    IN  IF more = {} THEN S ELSE btGroupFrom(board, groupType, S \cup more)

btGroup(board, p) == btGroupFrom(board, board[p].type, {p})

btLiberties(board, p) ==
    {n \in UNION {NeighborSet(q) : q \in btGroup(board, p)} :
        board[n].type = "empty"}

\* The first cell of the scan order in S; S is not empty.
firstInScan(S) ==
    ScanOrder[CHOOSE i \in 1 .. Len(ScanOrder) :
                 /\ ScanOrder[i] \in S
                 /\ \A j \in 1 .. (i - 1) : ScanOrder[j] \notin S]

plainMove(p) == Some([r |-> p[1], c |-> p[2], effect |-> "null"])

\* B1: the one liberty of the first white/resistance group in atari that
\* holds a resistance stone.
b1_preventResistanceLoss(state) ==
    LET board == state.board
        danger == {p \in Pos :
                     /\ isWhiteResistance(board[p].type)
                     /\ Cardinality(btLiberties(board, p)) = 1
                     /\ \E q \in btGroup(board, p) : board[q].type = "resistance"}
    IN  IF danger = {} THEN {None}
        ELSE {plainMove(q) : q \in btLiberties(board, firstInScan(danger))}

\* B5: a control stone on any empty neighbour of the first black empathy
\* stone that has one, else the capture of an empathy group in atari.
b5_respondToEmpathy(state) ==
    LET board == state.board
        empathyStones == {p \in Pos : /\ board[p].type = "black"
                                      /\ "empathy" \in board[p].effects}
        free(p) == {n \in NeighborSet(p) : board[n].type = "empty"}
        reachable == {p \in empathyStones : free(p) # {}}
        atari == {p \in empathyStones : Cardinality(btLiberties(board, p)) = 1}
    IN  IF empathyStones = {} THEN {None}
        ELSE IF state.inventory.white.control > 0 /\ reachable # {}
             THEN {Some([r |-> n[1], c |-> n[2], effect |-> "control"]) :
                      n \in free(firstInScan(reachable))}
        ELSE IF atari # {}
             THEN {plainMove(q) : q \in btLiberties(board, firstInScan(atari))}
        ELSE {None}

\* B12: the cells strictly between the empty cell p and the white
\* aggression stone ea of the same row or column.
b12Cells(p, ea) ==
    IF ea[1] = p[1]
    THEN {<<p[1], cc>> : cc \in (Min(ea[2], p[2]) + 1) .. (Max(ea[2], p[2]) - 1)}
    ELSE {<<rr, p[2]>> : rr \in (Min(ea[1], p[1]) + 1) .. (Max(ea[1], p[1]) - 1)}

b12Score(board, p, ea) ==
    LET cells == b12Cells(p, ea)
        blacks == {q \in cells : board[q].type = "black"}
        whites == {q \in cells : board[q].type = "white"}
    IN  [abort |-> \E q \in cells : board[q].type = "resistance",
         netScore |-> Cardinality({q \in blacks : board[q].effects = {}})
                      + 2 * Cardinality({q \in blacks : board[q].effects # {}})
                      - Cardinality(whites),
         blackDestroyed |-> Cardinality(blacks),
         whiteDestroyed |-> Cardinality(whites)]

\* The pairs (empty cell, existing aggression stone) in the order of the
\* loops: cells in scan order, for each the stones in scan order.
b12Pairs(board) ==
    LET empties == SelectSeq(ScanOrder, LAMBDA p : board[p].type = "empty")
        existingAggr == SelectSeq(ScanOrder,
                           LAMBDA p : /\ board[p].type = "white"
                                      /\ "aggression" \in board[p].effects)
        n == Len(existingAggr)
    IN  [k \in 1 .. (Len(empties) * n) |->
            [p |-> empties[((k - 1) \div n) + 1],
             ea |-> existingAggr[((k - 1) % n) + 1]]]

RECURSIVE b12Loop(_, _, _, _, _)
b12Loop(board, pairs, k, bestScore, bestMove) ==
    IF k > Len(pairs) THEN bestMove
    ELSE LET p == pairs[k].p
             ea == pairs[k].ea
             s == b12Score(board, p, ea)
         IN  IF ea[1] # p[1] /\ ea[2] # p[2]
                THEN b12Loop(board, pairs, k + 1, bestScore, bestMove)
             ELSE IF /\ ~ s.abort
                     /\ s.netScore > bestScore
                     /\ s.blackDestroyed > s.whiteDestroyed
                THEN b12Loop(board, pairs, k + 1, s.netScore,
                             Some([r |-> p[1], c |-> p[2], effect |-> "aggression"]))
             ELSE b12Loop(board, pairs, k + 1, bestScore, bestMove)

b12_npcAggression(state) ==
    IF state.inventory.white.aggression <= 0 THEN {None}
    ELSE {b12Loop(state.board, b12Pairs(state.board), 1, 1, None)}

\* B16: the score of the empty cell p, doubled as the distance to the
\* centre is a multiple of one half.
b16Score(board, p) ==
    LET near(t) == Cardinality({n \in NeighborSet(p) : board[n].type = t})
        viral == Cardinality({n \in NeighborSet(p) :
                                 /\ board[n].type = "black"
                                 /\ "empathy" \in board[n].effects
                                 /\ ~ isNeutralized(board, n[1], n[2])})
    IN  40 * near("resistance") + 20 * near("white") + 10 * near("black")
        - 120 * viral
        - 2 * (Abs(2 * p[1] - Size) + Abs(2 * p[2] - Size))

b16_positionalImprovement(state) ==
    LET board == state.board
        empties == {p \in Pos : board[p].type = "empty"}
        best == {p \in empties :
                    \A q \in empties : b16Score(board, q) <= b16Score(board, p)}
    IN  IF empties = {} THEN {None} ELSE {plainMove(firstInScan(best))}

\* B18: the first empty cell.
b18_panicFallback(state) ==
    LET empties == {p \in Pos : state.board[p].type = "empty"}
    IN  IF empties = {} THEN {None} ELSE {plainMove(firstInScan(empties))}

\* DEFAULT_BEHAVIOR_CONFIG, chances in hundredths.
DEFAULT_BEHAVIOR_CONFIG ==
    << [priority |-> 100, triggerChance |-> 100, name |-> "Prevent Resistance Loss"],
       [priority |-> 90, triggerChance |-> 95, name |-> "Avoid Encirclement"],
       [priority |-> 85, triggerChance |-> 85, name |-> "Capture Player Stones"],
       [priority |-> 80, triggerChance |-> 90, name |-> "Prevent Control of Resistance"],
       [priority |-> 90, triggerChance |-> 100, name |-> "Respond to Empathy"],
       [priority |-> 70, triggerChance |-> 80, name |-> "Respond to Aggression"],
       [priority |-> 65, triggerChance |-> 75, name |-> "Respond to Control"],
       [priority |-> 48, triggerChance |-> 68, name |-> "Expand Resistance"],
       [priority |-> 44, triggerChance |-> 64, name |-> "Enable Resistance Growth"],
       [priority |-> 50, triggerChance |-> 65, name |-> "Place NPC Control"],
       [priority |-> 50, triggerChance |-> 60, name |-> "Use NPC Manipulation"],
       [priority |-> 45, triggerChance |-> 60, name |-> "Place NPC Aggression"],
       [priority |-> 40, triggerChance |-> 60, name |-> "Place NPC Empathy"],
       [priority |-> 35, triggerChance |-> 50, name |-> "Break Player Structure"],
       [priority |-> 10, triggerChance |-> 100, name |-> "Positional Improvement"],
       [priority |-> 0, triggerChance |-> 100, name |-> "Panic Fallback"] >>

\* The behaviours whose generators are modelled.
Generated == {"Prevent Resistance Loss", "Respond to Empathy",
              "Place NPC Aggression", "Positional Improvement", "Panic Fallback"}

generate(name, state) ==
    CASE name = "Prevent Resistance Loss" -> b1_preventResistanceLoss(state)
      [] name = "Respond to Empathy" -> b5_respondToEmpathy(state)
      [] name = "Place NPC Aggression" -> b12_npcAggression(state)
      [] name = "Positional Improvement" -> b16_positionalImprovement(state)
      [] name = "Panic Fallback" -> b18_panicFallback(state)

\* ------------------------------------------------------------------------
\* getAIDecision (src/lib/game.ts)
\* ------------------------------------------------------------------------
\* Every operator below is the set of values the code can compute, one per
\* way the random draws can fall. Scores are doubled as in minimax.
\*
\* possibleEffects: null, then the keys of the inventory with a positive
\* count, in the order of the keys.
possibleEffects(myInventory) ==
    <<"null">> \o SelectSeq(<<"aggression", "manipulation", "control", "empathy">>,
                            LAMBDA e : myInventory[e] > 0)

\* "Resolve" and "Turn transition" of a simulated board.
resolveSimulated(state, board) ==
    LET cap == checkCaptures(board, state.turn)
        resolved == handleResolutionEvent(cap.board, cap.destroyed, state.turn,
                                          state.turnCount)
        opponent == IF state.turn = "black" THEN "white" ELSE "black"
        spread == spreadEmpathy(resolved, opponent)
    IN  IF opponent = "white" THEN spreadResistance(spread) ELSE {spread}

\* The simulated boards of placing effect (not manipulation) on move.
simulatePlacement(state, move, effect) ==
    LET placed == [state.board EXCEPT
                      ![move].type = state.turn,
                      ![move].effects = IF effect = "null" THEN @
                                        ELSE @ \cup {effect}]
        aggr == triggerAggression(placed, move)
    IN  resolveSimulated(state,
            IF effect = "aggression"
            THEN handleResolutionEvent(aggr.board, aggr.destroyed, state.turn,
                                       state.turnCount)
            ELSE placed)

\* The simulated boards of placing manipulation on move and swapping with
\* the neighbour n: types are swapped, effects stay in place.
simulateSwap(state, move, n) ==
    LET b == state.board
    IN  resolveSimulated(state,
            [b EXCEPT ![move].type = b[n].type,
                      ![move].effects = @ \ {"manipulation"},
                      ![n].type = state.turn,
                      ![n].effects = @ \ {"manipulation"}])

searchScores(boards, depth) ==
    UNION {minimax(b, depth - 1, - Infinity, Infinity, FALSE) : b \in boards}

\* The loop over the neighbours of a manipulation placement from position
\* i on: the final (currentEffectBestScore, currentEffectBestSwap).
RECURSIVE swapLoop(_, _, _, _, _, _, _)
swapLoop(state, depth, move, neighbors, i, score, swap) ==
    IF i > Len(neighbors) THEN {[score |-> score, swap |-> swap]}
    ELSE LET n == neighbors[i]
         IN  IF state.board[n].type \in {"empty", "collapse"}
             THEN swapLoop(state, depth, move, neighbors, i + 1, score, swap)
             ELSE UNION {
                    IF s > score
                    THEN swapLoop(state, depth, move, neighbors, i + 1, s,
                                  Some(<<move, n>>))
                    ELSE swapLoop(state, depth, move, neighbors, i + 1, score, swap)
                    : s \in searchScores(simulateSwap(state, move, n), depth)}

effectOutcomes(state, depth, move, effect) ==
    IF effect = "manipulation"
    THEN swapLoop(state, depth, move, getNeighbors(move[1], move[2], Size), 1,
                  - Infinity, None)
    ELSE {[score |-> s, swap |-> None] :
             s \in searchScores(simulatePlacement(state, move, effect), depth)}

\* The loop over possibleEffects from position i on: the evaluation of move.
RECURSIVE effectLoop(_, _, _, _, _, _)
effectLoop(state, depth, move, effects, i, best) ==
    IF i > Len(effects) THEN {best}
    ELSE UNION {
           IF o.score > best.score
           THEN effectLoop(state, depth, move, effects, i + 1,
                           [best EXCEPT !.effect = effects[i],
                                        !.score = o.score, !.swap = o.swap])
           ELSE effectLoop(state, depth, move, effects, i + 1, best)
           : o \in effectOutcomes(state, depth, move, effects[i])}

\* moveEvaluations before the sort, for the moves from position i on.
RECURSIVE moveEvaluations(_, _, _, _)
moveEvaluations(state, depth, moves, i) ==
    IF i > Len(moves) THEN {<<>>}
    ELSE {<<e>> \o rest :
             e \in effectLoop(state, depth, moves[i],
                              possibleEffects(state.inventory[state.turn]), 1,
                              [r |-> moves[i][1], c |-> moves[i][2],
                               effect |-> "null", score |-> - Infinity,
                               swap |-> None]),
             rest \in moveEvaluations(state, depth, moves, i + 1)}

\* moveEvaluations.sort((a, b) => b.score - a.score), a stable sort.
RECURSIVE sortEvaluations(_)
sortEvaluations(evals) ==
    IF Len(evals) = 0 THEN <<>>
    ELSE LET best == CHOOSE k \in 1 .. Len(evals) :
                        /\ \A j \in 1 .. Len(evals) : evals[k].score >= evals[j].score
                        /\ \A j \in 1 .. (k - 1) : evals[j].score < evals[k].score
             rest == [j \in 1 .. (Len(evals) - 1) |->
                         IF j < best THEN evals[j] ELSE evals[j + 1]]
         IN  <<evals[best]>> \o sortEvaluations(rest)

searchDepth(difficulty, moves) ==
    LET depth == CASE difficulty = "hard" -> 2
                   [] difficulty = "expert" -> 3
                   [] difficulty = "impossible" -> 4
                   [] OTHER -> 1
    IN  IF (Size >= 6 \/ Len(moves) > 20) /\ depth > 2 THEN 2 ELSE depth

\* The search path: the sorted evaluations the code can arrive at.
sortedEvaluations(state, difficulty) ==
    LET moves == validMoves(state.board, 1)
    IN  {sortEvaluations(evals) :
            evals \in moveEvaluations(state, searchDepth(difficulty, moves),
                                      moves, 1)}

\* The choice among the sorted evaluations.
chosenEvaluations(sorted, difficulty) ==
    IF difficulty = "easy" THEN Range(sorted)
    ELSE IF difficulty = "medium"
         THEN {sorted[k] : k \in 1 .. Min(3, Len(sorted))}
    ELSE {sorted[1]}

\* getAIDecision: behaviorTree is state.behaviorTree ("undefined" when
\* absent), btMove what runBehaviorTree(state) returned if it is called.
\* The moves of the search path carry their score.
getAIDecision(state, difficulty, behaviorTree, btMove) ==
    IF behaviorTree \in {"undefined", "default"} /\ btMove # None THEN {btMove}
    ELSE IF Len(validMoves(state.board, 1)) = 0 THEN {None}
    ELSE {Some(e) : e \in UNION {chosenEvaluations(sorted, difficulty) :
                                    sorted \in sortedEvaluations(state, difficulty)}}

\* ------------------------------------------------------------------------
\* The behaviour tree as a function: a drawn state and config, then one run
\* ------------------------------------------------------------------------
BtKinds ==
    {EmptyCell, stone("white", {}), stone("black", {"aggression"}),
     stone("black", {"empathy"})}

\* The rows above the middle row: nothing, or white stones of which the
\* first of each row carries control.
BtTops == {"none", "white"}

btBoard(row, top) ==
    [p \in Pos |->
        IF p \in MidRow THEN row[p[2]]
        ELSE IF p[1] < Size \div 2 /\ top = "white"
             THEN stone("white", IF p[2] = 0 THEN {"control"} ELSE {})
        ELSE EmptyCell]

\* The cells and effects the generators are drawn from.
BtCells == {Centre, <<Size \div 2, 0>>}

BtEffects == {"null", "empathy"}

BtCandidates == {[r |-> p[1], c |-> p[2], effect |-> e] : p \in BtCells, e \in BtEffects}

\* Earlier boards that white's stone on the centre would restore.
earlierBoards(board) ==
    {[board EXCEPT ![Centre] = stone("white", IF e = "null" THEN {} ELSE {e})] :
        e \in BtEffects}

\* The history of the game in progress: the matching board as the last,
\* the second last or the third last entry, or no entry at all.
BtHistories(board) ==
    LET entry(b) == historyEntry(gameInProgress(b, "black"))
    IN  {<<>>} \cup UNION {{<<entry(h)>>, <<entry(h), entry(board)>>,
                           <<entry(h), entry(board), entry(board)>>} :
                          h \in earlierBoards(board)}

\* Two behaviours of DEFAULT_BEHAVIOR_CONFIG, chances in hundredths.
BtBehaviors ==
    {[priority |-> 100, triggerChance |-> 100],
     [priority |-> 90, triggerChance |-> 95]}

BtRolls == {50, 99}

\* The NPC plays white; the state is a game in progress on its turn.
InitBehavior ==
    /\ \E row \in [Rows -> BtKinds], top \in BtTops :
          LET board == btBoard(row, top)
          IN  /\ Cardinality({p \in Pos : "aggression" \in board[p].effects})
                    <= PlayerAggression
              /\ checkCaptures(board, "white").destroyed = <<>>
              /\ checkCaptures(board, "black").destroyed = <<>>
              /\ \E history \in BtHistories(board) :
                    store = [gameInProgress(board, "white") EXCEPT
                                !.history = history]
    /\ \E config \in [1 .. 2 -> BtBehaviors] : input = Some([config |-> config])
    /\ output = None
    /\ last = "commitTurn"

CallRunBehaviorTree ==
    /\ input # None
    /\ output = None
    /\ \E rolls \in [DOMAIN input[1].config -> BtRolls],
          generated \in [DOMAIN input[1].config ->
                            {None} \cup {Some(m) : m \in BtCandidates}] :
          output' = Some([rolls |-> rolls,
                          generated |-> generated,
                          result |-> runBehaviorTree(store, input[1].config,
                                                     rolls, generated)])
    /\ UNCHANGED <<store, last, input>>

NextBehavior == CallRunBehaviorTree

SpecBehavior == InitBehavior /\ [][NextBehavior]_vars

\* ------------------------------------------------------------------------
\* The default behaviour tree: a drawn state on the NPC's turn, then one run
\* ------------------------------------------------------------------------
\* The cells drawn freely: the first row and the first column.
TreeCells == {p \in Pos : p[1] = 0 \/ p[2] = 0}

TreeKinds ==
    {EmptyCell, stone("resistance", {}), stone("black", {"empathy"}),
     stone("black", {"aggression"}), stone("white", {"aggression"})}

\* The cell next to the corner: empty or a black viral stone.
TreeInner == {EmptyCell, stone("black", {"empathy"})}

TreeFills == {"empty", "black"}

treeBoard(cells, inner, fill) ==
    [p \in Pos |->
        IF p \in TreeCells THEN cells[p]
        ELSE IF p = <<1, 1>> THEN inner
        ELSE IF fill = "empty" THEN EmptyCell
        ELSE stone(fill, {})]

aggressionStones(board, player) ==
    Cardinality({p \in Pos : /\ board[p].type = player
                             /\ "aggression" \in board[p].effects})

\* The residue the commit before left on the first empty cell, if any: a
\* white stone was destroyed there.
residueOnFirstEmpty(board, turnCount) ==
    LET empties == {p \in Pos : board[p].type = "empty"}
    IN  IF empties = {} THEN board
        ELSE [board EXCEPT ![firstInScan(empties)].aftershock =
                 Some([type |-> "white", turnCreated |-> turnCount - 1])]

\* Math.random in hundredths: a draw that passes the gate of "Place NPC
\* Aggression" and one that passes only the gates of chance 1.
TreeRolls == {50, 99}

\* A game in progress on white's turn; the aggression stones on the board
\* are taken from the inventories.
InitDefaultTree ==
    /\ \E cells \in [TreeCells -> TreeKinds], inner \in TreeInner,
          fill \in TreeFills, residue \in BOOLEAN, control \in 0 .. PlayerOther :
          LET board == treeBoard(cells, inner, fill)
              game == gameInProgress(board, "white")
          IN  /\ storable(board, "white")
              /\ aggressionStones(board, "black") <= PlayerAggression
              /\ aggressionStones(board, "white") <= PlayerAggression
              /\ store = [game EXCEPT
                    !.board = IF residue
                              THEN residueOnFirstEmpty(board, game.turnCount)
                              ELSE board,
                    !.inventory.white.aggression =
                        PlayerAggression - aggressionStones(board, "white"),
                    !.inventory.black.aggression =
                        PlayerAggression - aggressionStones(board, "black"),
                    !.inventory.white.control = control]
    /\ input = Some([config |-> DEFAULT_BEHAVIOR_CONFIG])
    /\ output = None
    /\ last = "commitTurn"

\* What the generators of the behaviours from position k on can return, one
\* sequence per combination; None stands for a generator that is not called.
RECURSIVE generatorOutcomes(_, _, _, _)
generatorOutcomes(state, config, rolls, k) ==
    IF k > Len(config) THEN {<<>>}
    ELSE LET own == IF /\ config[k].name \in Generated
                       /\ rolls[k] <= config[k].triggerChance
                    THEN generate(config[k].name, state)
                    ELSE {None}
         IN  {<<g>> \o rest : g \in own,
                              rest \in generatorOutcomes(state, config, rolls, k + 1)}

\* One run of runBehaviorTree(state). The runs taken are those in which
\* Math.random draws 0.99 for every behaviour but "Place NPC Aggression":
\* the gates of chance below 1 then fail and their generators are not
\* called.
CallDefaultTree ==
    /\ input # None
    /\ output = None
    /\ \E roll \in TreeRolls :
          LET config == input[1].config
              rolls == [k \in DOMAIN config |->
                          IF config[k].name = "Place NPC Aggression"
                          THEN roll ELSE 99]
          IN  \E generated \in generatorOutcomes(store, config, rolls, 1) :
                 output' = Some([rolls |-> rolls,
                                 generated |-> generated,
                                 result |-> runBehaviorTree(store, config,
                                                            rolls, generated)])
    /\ UNCHANGED <<store, last, input>>

NextDefaultTree == CallDefaultTree

SpecDefaultTree == InitDefaultTree /\ [][NextDefaultTree]_vars

\* ------------------------------------------------------------------------
\* getAIDecision as a function: a drawn state, then one call
\* ------------------------------------------------------------------------
\* The top row is drawn, the rest of the board is filled with one kind; the
\* white fill has a resistance stone in the last corner.
DecisionCells == {<<0, 0>>, <<0, 1>>, <<0, 2>>}

DecisionKinds ==
    {EmptyCell, stone("black", {}), stone("white", {}), stone("resistance", {}),
     stone("black", {"empathy"}), stone("black", {"aggression"})}

DecisionFills == {"black", "white"}

decisionBoard(cells, fill) ==
    [p \in Pos |->
        IF p \in DecisionCells THEN cells[p]
        ELSE IF fill = "white" /\ p = <<2, 2>> THEN stone("resistance", {})
        ELSE stone(fill, {})]

Difficulties == {"easy", "medium", "hard"}

BehaviorTrees == {"none", "default"}

\* The boards a history entry is drawn from: the board of the state and
\* the boards its plain placements are simulated to.
recordedBoards(state) ==
    {state.board} \cup
    UNION {simulatePlacement(state, p, "null") :
              p \in {q \in Pos : state.board[q].type = "empty"}}

\* Histories of at most two entries; an entry is a state without history.
decisionHistories(state) ==
    LET entries == {historyEntry([state EXCEPT !.board = b, !.turn = "black",
                                               !.turnCount = @ - 1]) :
                       b \in recordedBoards(state)}
    IN  {<<>>} \cup {<<e>> : e \in entries}
               \cup {<<e, historyEntry(state)>> : e \in entries}

\* A game in progress on white's turn, as the AI lifecycle hands it to
\* getAIDecision with state.difficulty and state.behaviorTree.
InitDecision ==
    /\ \E cells \in [DecisionCells -> DecisionKinds], fill \in DecisionFills,
          residue \in BOOLEAN, control \in 0 .. PlayerOther,
          difficulty \in Difficulties, behaviorTree \in BehaviorTrees :
          LET board == decisionBoard(cells, fill)
              game == [gameInProgress(
                          IF residue
                          THEN residueOnFirstEmpty(board, startTurnCount("white"))
                          ELSE board, "white")
                       EXCEPT !.inventory.white =
                                 [buildNpcInventory(<<>>, EasyMaxSpecial)
                                  EXCEPT !.control = control],
                              !.inventory.black.aggression =
                                 PlayerAggression - aggressionStones(board, "black")]
          IN  /\ storable(board, "white")
              /\ aggressionStones(board, "black") <= PlayerAggression
              /\ \E history \in decisionHistories(game) :
                     store = [game EXCEPT !.history = history]
              /\ input = Some([difficulty |-> difficulty,
                               behaviorTree |-> behaviorTree])
    /\ output = None
    /\ last = "commitTurn"

\* One call getAIDecision(state, state.difficulty). The runs of the
\* behaviour tree taken are those in which Math.random draws 0.99 at every
\* gate. The output keeps the sorted evaluations of the search path.
CallGetAIDecision ==
    /\ input # None
    /\ output = None
    /\ LET config == DEFAULT_BEHAVIOR_CONFIG
           rolls == [k \in DOMAIN config |-> 99]
           treeRuns == input[1].behaviorTree \in {"undefined", "default"}
       IN  \E generated \in IF treeRuns
                             THEN generatorOutcomes(store, config, rolls, 1)
                             ELSE {<<>>} :
              LET btMove == IF treeRuns
                            THEN runBehaviorTree(store, config, rolls, generated)
                            ELSE None
              IN  IF treeRuns /\ btMove # None
                  THEN output' = Some([evaluations |-> <<>>, result |-> btMove])
                  ELSE IF Len(validMoves(store.board, 1)) = 0
                  THEN output' = Some([evaluations |-> <<>>, result |-> None])
                  ELSE \E sorted \in sortedEvaluations(store, input[1].difficulty) :
                          \E e \in chosenEvaluations(sorted, input[1].difficulty) :
                             output' = Some([evaluations |-> sorted,
                                             result |-> Some(e)])
    /\ UNCHANGED <<store, last, input>>

NextDecision == CallGetAIDecision

SpecDecision == InitDecision /\ [][NextDecision]_vars

\* ------------------------------------------------------------------------
\* evaluateBoardDeep as a function of a board
\* ------------------------------------------------------------------------
\* The boards drawn are those of winBoard: any type on the centre cell and
\* its four neighbours, the corners all empty, all white or all collapse
\* cells. minimax hands the board to evaluateBoardDeep at depth 0.
InitEvaluate ==
    /\ \E types \in [CrossCells -> WinTypes], fill \in CornerFills :
          input = Some([board |-> winBoard(types, fill)])
    /\ output = None
    /\ store = hostGame({}, None, playerInventory)
    /\ last = "hostGame"

CallEvaluateBoardDeep ==
    /\ input # None
    /\ output = None
    /\ output' = Some([result |-> evaluateBoardDeep(input[1].board)])
    /\ UNCHANGED <<store, last, input>>

NextEvaluate == CallEvaluateBoardDeep

SpecEvaluate == InitEvaluate /\ [][NextEvaluate]_vars

\* ------------------------------------------------------------------------
\* Two overlapping entry-point calls on one game id
\* ------------------------------------------------------------------------
\* Every entry point is 'const state = await getGame(gameId); ...; await
\* saveGame(gameId, newState)': the call is suspended at both awaits, and
\* another call on the same id can run in between. A call is modelled by
\* its two steps on the store, the read of getGame and the write of
\* saveGame; what lies between them is computed on the state read.
\*
\* input:  the two calls and the stored state they met.
\* output: per call its phase ("called", "read", "returned"), the state it
\*         read and whether it returned a state (ok) or null.
OverlapCalls == {1, 2}

\* The calls drawn: undoAction, commitTurn and swapMove of the cell next to
\* the corner with one of its neighbours.
OverlapOps ==
    {[name |-> "undoAction"], [name |-> "commitTurn"]} \cup
    {[name |-> "swapMove", p1 |-> <<0, 1>>, p2 |-> p2] :
        p2 \in {<<0, 0>>, <<1, 1>>}}

\* The results an entry point can compute from the state it read.
entryPoint(op, state) ==
    CASE op.name = "undoAction" -> {undoAction(state)}
      [] op.name = "commitTurn" -> commitTurn(state)
      [] op.name = "swapMove" -> {swapMove(state, op.p1, op.p2)}

\* The stored game: a new game after one makeMove.
InitOverlap ==
    /\ \E resPositions \in ResistanceDraws, cfg \in Configs,
          r \in Rows, c \in Rows, effect \in Effects :
          LET placed == makeMove(hostGame(resPositions, cfg.turnLimit,
                                          cfg.npcInventory), r, c, effect)
          IN  /\ placed.ok
              /\ store = placed.state
    /\ \E ops \in [OverlapCalls -> OverlapOps] :
          input = Some([ops |-> ops, start |-> store])
    /\ output = Some([i \in OverlapCalls |->
                         [phase |-> "called", state |-> None, ok |-> FALSE]])
    /\ last = "makeMove"

\* const state = await getGame(gameId)
GetGame(i) ==
    /\ output[1][i].phase = "called"
    /\ output' = Some([output[1] EXCEPT
                          ![i] = [phase |-> "read", state |-> Some(store),
                                  ok |-> FALSE]])
    /\ UNCHANGED <<store, last, input>>

\* The rest of the call: 'return null', or saveGame(gameId, newState).
SaveGame(i) ==
    /\ output[1][i].phase = "read"
    /\ \E res \in entryPoint(input[1].ops[i], output[1][i].state[1]) :
          /\ store' = IF res.ok THEN res.state ELSE store
          /\ last' = IF res.ok THEN input[1].ops[i].name ELSE last
          /\ output' = Some([output[1] EXCEPT
                                ![i] = [phase |-> "returned", state |-> None,
                                        ok |-> res.ok]])
    /\ UNCHANGED input

NextOverlap == \E i \in OverlapCalls : GetGame(i) \/ SaveGame(i)

SpecOverlap == InitOverlap /\ [][NextOverlap]_vars

\* ------------------------------------------------------------------------
\* A turn that captures a large group
\* ------------------------------------------------------------------------
\* The stored board at the start of the turn: a white group on (0,1),
\* (0,2), (1,1) and a black group on (2,1), (2,2); the other four cells
\* are drawn, a collapse cell being what an earlier escalation left.
EscalationCells == {<<0, 0>>, <<1, 0>>, <<2, 0>>, <<1, 2>>}

EscalationTypes == {"empty", "black", "white", "resistance", "collapse"}

escalationBoard(types) ==
    [p \in Pos |->
        IF p \in EscalationCells THEN [EmptyCell EXCEPT !.type = types[p]]
        ELSE IF p[1] = 2 THEN stone("black", {})
        ELSE stone("white", {})]

InitEscalation ==
    /\ \E types \in [EscalationCells -> EscalationTypes], turn \in Player :
          /\ storable(escalationBoard(types), turn)
          /\ store = gameInProgress(escalationBoard(types), turn)
    /\ input = None
    /\ output = None
    /\ last = "commitTurn"

\* makeMove(gameId, r, c, null) on an empty cell (the client offers no
\* other), in the turn the game was drawn at.
MakeMovePlainOnEmpty ==
    /\ store.turnCount = startTurnCount(store.turn)
    /\ \E p \in Pos :
          /\ store.board[p].type = "empty"
          /\ makeMove(store, p[1], p[2], "null").ok
          /\ store' = makeMove(store, p[1], p[2], "null").state
    /\ last' = "makeMove"
    /\ UNCHANGED <<input, output>>

NextEscalation == MakeMovePlainOnEmpty \/ CommitTurn

SpecEscalation == InitEscalation /\ [][NextEscalation]_vars

\* ------------------------------------------------------------------------
\* Groups and liberties, as the claims state them
\* ------------------------------------------------------------------------
\* black matches only black; white and resistance are one allegiance.
allegiance(t) ==
    IF t = "black" THEN "black"
    ELSE IF t = "white" \/ t = "resistance" THEN "white"
    ELSE "none"

isStoneType(t) == allegiance(t) # "none"

RECURSIVE connected(_, _, _)
connected(b, side, S) ==
    LET grown == S \cup {n \in Pos : /\ allegiance(b[n].type) = side
                                     /\ \E q \in S : n \in NeighborSet(q)}
    IN  IF grown = S THEN S ELSE connected(b, side, grown)

GroupOf(b, p) == connected(b, allegiance(b[p].type), {p})

LibertiesOf(b, G) ==
    {n \in Pos : b[n].type = "empty" /\ \E q \in G : n \in NeighborSet(q)}

\* Some group of stones on b has no adjacent empty cell.
HasDeadGroup(b) ==
    \E p \in Pos : isStoneType(b[p].type) /\ LibertiesOf(b, GroupOf(b, p)) = {}

\* C1: after checkCaptures(board, P), for either side P and any board, every
\* remaining group (black with black; white and resistance together) has at
\* least one adjacent empty cell.
LibertyInvariant ==
    output # None => ~ HasDeadGroup(output[1].result.board)

\* A call that captured the opponent's dead group and then a dead group of
\* lastPlayer itself, leaving stones on the board.
WitnessC1 ==
    /\ output # None
    /\ LET res == output[1].result
           P == output[1].lastPlayer
       IN  /\ \E i \in 1 .. Len(res.destroyed) :
                 allegiance(res.destroyed[i].type) = P
           /\ \E i \in 1 .. Len(res.destroyed) :
                 allegiance(res.destroyed[i].type) = Other(P)
           /\ \E p \in Pos : isStoneType(res.board[p].type)
           /\ \E p \in Pos : res.board[p].type = "collapse"

\* ------------------------------------------------------------------------
\* Claims about the entry points
\* ------------------------------------------------------------------------
NoResistance(board) == \A p \in Pos : board[p].type # "resistance"

\* C2: makeMove targeting a cell whose occupant is not empty is rejected:
\* it returns failure and the stored GameState is unchanged.
OccupiedCellRejected ==
    \A r \in Rows, c \in Rows, effect \in Effects :
        store.board[<<r, c>>].type # "empty"
            => makeMove(store, r, c, effect) = Rejected(store)

\* C3: makeMove succeeds only with gameOver = false and moveConfirmed =
\* false, swapMove only with pendingSwap defined, commitTurn only with
\* moveConfirmed = true; and pendingSwap is defined only if moveConfirmed.
PhasePreconditions ==
    /\ last' = "makeMove" => ~ store.gameOver /\ ~ store.moveConfirmed
    /\ last' = "swapMove" => store.pendingSwap # None
    /\ last' = "commitTurn" => store.moveConfirmed

TurnPhases ==
    /\ [](store.pendingSwap # None => store.moveConfirmed)
    /\ [][PhasePreconditions]_vars

\* A swap has been saved: placement, then the secondary action.
WitnessC3 ==
    /\ last = "swapMove"
    /\ store.moveConfirmed
    /\ store.pendingSwap = None
    /\ store.turnCount > 0

\* C4: every successful commitTurn hands the turn to the other side, adds
\* exactly 1 to turnCount and stores moveConfirmed = false and pendingSwap
\* undefined; and turn = 'black' exactly when turnCount is even.
CommitHandsOver ==
    last' = "commitTurn" =>
        /\ store'.turn = Other(store.turn)
        /\ store'.turnCount = store.turnCount + 1
        /\ ~ store'.moveConfirmed
        /\ store'.pendingSwap = None

TurnParity ==
    /\ []((store.turn = "black") <=> (store.turnCount % 2 = 0))
    /\ [][CommitHandsOver]_vars

\* At least two commits have been saved and the last one ended the game.
WitnessC4 ==
    /\ last = "commitTurn"
    /\ store.turnCount >= 2
    /\ store.gameOver

\* C5: if the board contains no resistance stone then gameOver = true and
\* winner = 'black'.
AttackerWinsWithoutResistance ==
    NoResistance(store.board) => store.gameOver /\ store.winner = "black"

\* A commit has just captured the resistance group: no resistance stone is
\* left and both of its cells carry the aftershock of the capture.
WitnessC5 ==
    /\ NoResistance(store.board)
    /\ last = "commitTurn"
    /\ \A p \in DeepDraw :
          /\ store.board[p].type = "empty"
          /\ store.board[p].aftershock # None

\* C6: with turnLimit = L, when black's commit makes the completed black
\* turns ceil((turnCount+1)/2) reach L and a resistance stone remains, the
\* committed state is game over with winner 'white'; every state with
\* turnCount = 2L-1 is game over and turnCount never exceeds 2L-1.
CeilHalf(n) == (n + 1) \div 2

LimitCommit ==
    (/\ last' = "commitTurn"
     /\ store.turn = "black"
     /\ store.turnLimit # None
     /\ CeilHalf(store.turnCount + 1) >= store.turnLimit[1]
     /\ ~ NoResistance(store'.board))
        => store'.gameOver /\ store'.winner = "white"

TurnLimitEndsGame ==
    /\ [](store.turnLimit # None =>
            /\ store.turnCount <= 2 * store.turnLimit[1] - 1
            /\ (store.turnCount = 2 * store.turnLimit[1] - 1 => store.gameOver))
    /\ [][LimitCommit]_vars

\* Black's last commit left resistance on the board and white has won.
WitnessC6 ==
    /\ last = "commitTurn"
    /\ store.turnLimit # None
    /\ store.turnCount = 2 * store.turnLimit[1] - 1
    /\ ~ NoResistance(store.board)
    /\ store.gameOver
    /\ store.winner = "white"

\* C7: once a stored state has gameOver = true, every later entry-point
\* call is rejected or stores a state with gameOver = true, the same winner
\* and the same board.
TerminalIsFinal ==
    [][store.gameOver =>
          /\ store'.gameOver
          /\ store'.winner = store.winner
          /\ store'.board = store.board]_vars

\* C8: after a successful commitTurn the stored history is empty, so an
\* undoAction issued before any new placement is rejected.
HistoryClearedAtCommit ==
    last = "commitTurn" =>
        /\ store.history = <<>>
        /\ undoAction(store) = Rejected(store)

\* C9: for every stored state S on which makeMove or swapMove succeeds,
\* undoAction called immediately afterwards stores a state equal to S in
\* every field; and every history entry has an empty history.
UndoRestores ==
    last' \in {"makeMove", "swapMove"} =>
        /\ undoAction(store').ok
        /\ undoAction(store').state = store

UndoIsInverse ==
    /\ [](\A i \in 1 .. Len(store.history) : store.history[i].history = <<>>)
    /\ [][UndoRestores]_vars

\* An undo has restored the state in which a swap was pending, the history
\* holding the state before the placement.
WitnessC9 ==
    /\ last = "undoAction"
    /\ store.pendingSwap # None
    /\ Len(store.history) >= 1

\* C10: inventory counts are never negative; a makeMove requesting an
\* ability whose count for the mover is 0 is rejected with the stored state
\* unchanged; a successful makeMove with an ability decrements exactly that
\* count of the mover by 1 and changes no other count of either side.
InventoryAfter(inventory, player, effect) ==
    [pl \in Player |-> [e \in SpecialEffect |->
        IF pl = player /\ e = effect THEN inventory[pl][e] - 1
        ELSE inventory[pl][e]]]

PlacementSpends ==
    last' = "makeMove" =>
        \E r \in Rows, c \in Rows, effect \in Effects :
            /\ store' = makeMove(store, r, c, effect).state
            /\ store'.inventory = InventoryAfter(store.inventory, store.turn, effect)

InventoryNeverNegative ==
    /\ [](\A pl \in Player, e \in SpecialEffect : store.inventory[pl][e] >= 0)
    /\ [](\A r \in Rows, c \in Rows, e \in SpecialEffect :
             store.inventory[store.turn][e] = 0
                 => makeMove(store, r, c, e) = Rejected(store))
    /\ [][PlacementSpends]_vars

\* The mover has spent the last stone of an ability and is to place again,
\* so that a request for that ability now meets a count of 0.
WitnessC10 ==
    /\ last = "commitTurn"
    /\ ~ store.gameOver
    /\ store.turn = "black"
    /\ store.inventory["black"]["manipulation"] = 0
    /\ store.inventory["black"]["aggression"] = PlayerAggression

\* ------------------------------------------------------------------------
\* Claims about residue, swaps and the board functions
\* ------------------------------------------------------------------------
\* C11: a residue (aftershock) created by a commit at turnCount = T blocks
\* makeMove on that cell by its owning side while turnCount is T or T+1 and
\* no longer once turnCount is T+2; it never blocks the other side.
ResidueBlocks ==
    \A p \in Pos :
        LET a == store.board[p].aftershock
            age == store.turnCount - a[1].turnCreated
        IN  a # None =>
              /\ (age \in {0, 1} /\ store.turn = a[1].type)
                    => \A effect \in Effects :
                          makeMove(store, p[1], p[2], effect) = Rejected(store)
              /\ ((age >= 2 \/ store.turn # a[1].type)
                     /\ ~ store.gameOver /\ ~ store.moveConfirmed)
                    => makeMove(store, p[1], p[2], "null").ok

ResidueStamped ==
    last' = "commitTurn" =>
        \A p \in Pos :
            (/\ store'.board[p].aftershock # None
             /\ store'.board[p].aftershock # store.board[p].aftershock)
                => store'.board[p].aftershock[1].turnCreated = store.turnCount

ResidueExpiry ==
    /\ []ResidueBlocks
    /\ [][ResidueStamped]_vars

\* A residue of age 2 is still on the board and no longer blocks, and the
\* history holds the state one turn earlier in which its owning side was to
\* move and was refused the cell.
WitnessC11 ==
    /\ ~ store.gameOver
    /\ ~ store.moveConfirmed
    /\ \E p \in Pos :
          LET a == store.board[p].aftershock
          IN  /\ a # None
              /\ store.turnCount = a[1].turnCreated + 2
              /\ makeMove(store, p[1], p[2], "null").ok
              /\ \E i \in 1 .. Len(store.history) :
                    LET h == store.history[i]
                    IN  /\ h.turnCount = a[1].turnCreated + 1
                        /\ ~ h.moveConfirmed
                        /\ h.board[p].aftershock = a
                        /\ h.turn = a[1].type
                        /\ ~ makeMove(h, p[1], p[2], "null").ok

\* The owning side is to move on its own residue of age 2 (its stone was
\* destroyed by its own commit) and is allowed to place there.
OwnResidueExpired ==
    /\ ~ store.gameOver
    /\ ~ store.moveConfirmed
    /\ \E p \in Pos :
          LET a == store.board[p].aftershock
          IN  /\ a # None
              /\ store.turnCount = a[1].turnCreated + 2
              /\ store.turn = a[1].type

\* C12: swapMove is rejected, with the stored state unchanged, whenever one
\* of its two coordinates is more than Manhattan distance 1 from the
\* recorded pendingSwap origin, or one of the two cells is empty or voided.
Manhattan(p, q) == Abs(p[1] - q[1]) + Abs(p[2] - q[2])

SwapOutOfReachRejected ==
    store.pendingSwap # None =>
        \A p1 \in Pos, p2 \in Pos :
            (\/ Manhattan(p1, store.pendingSwap[1]) > 1
             \/ Manhattan(p2, store.pendingSwap[1]) > 1
             \/ ~ isStone(store.board, p1)
             \/ ~ isStone(store.board, p2))
                => swapMove(store, p1, p2) = Rejected(store)

\* C13: a successful swapMove exchanges type and ability set together
\* between the two cells, then removes manipulation from both and clears
\* the residue of both; every other cell, both inventories, turn and
\* turnCount are unchanged and pendingSwap becomes undefined.
SwappedCell(old, from) ==
    [type |-> old[from].type,
     effects |-> old[from].effects \ {"manipulation"},
     aftershock |-> None]

SwapExchanges ==
    last' = "swapMove" =>
        \E p1 \in Pos, p2 \in Pos :
            /\ swapMove(store, p1, p2).ok
            /\ store' = swapMove(store, p1, p2).state
            /\ store'.board[p1] = SwappedCell(store.board, p2)
            /\ store'.board[p2] = SwappedCell(store.board, p1)
            /\ \A q \in Pos \ {p1, p2} : store'.board[q] = store.board[q]
            /\ store'.inventory = store.inventory
            /\ store'.turn = store.turn
            /\ store'.turnCount = store.turnCount
            /\ store'.pendingSwap = None

RECURSIVE aliveFrom(_, _, _)
aliveFrom(b, side, S) ==
    LET grown == S \cup {n \in Pos : /\ allegiance(b[n].type) = side
                                     /\ NeighborSet(n) \cap S # {}}
    IN  IF grown = S THEN S ELSE aliveFrom(b, side, grown)

AliveCells(b, side) ==
    aliveFrom(b, side,
              {p \in Pos : /\ allegiance(b[p].type) = side
                           /\ \E q \in NeighborSet(p) : b[q].type = "empty"})

\* The stones of `side` whose group has no liberty on b.
DeadCells(b, side) ==
    {p \in Pos : allegiance(b[p].type) = side} \ AliveCells(b, side)

Cleared(b, S) ==
    [p \in DOMAIN b |-> IF p \in S THEN [b[p] EXCEPT !.type = "empty", !.effects = {}]
                   ELSE b[p]]

AfterOpponentPhase(b, P) == Cleared(b, DeadCells(b, Other(P)))

OpponentResolvedFirst ==
    output # None =>
        LET b == input[1].board
            P == output[1].lastPlayer
            res == output[1].result
        IN  \E dead1 \in {DeadCells(b, Other(P))} :
            \E mid \in {Cleared(b, dead1)} :
            \E dead2 \in {DeadCells(mid, P)} :
                /\ res.board = Cleared(mid, dead2)
                /\ {res.destroyed[i].pos : i \in 1 .. Len(res.destroyed)} =
                      dead1 \cup dead2
                /\ \A i \in 1 .. Len(res.destroyed) :
                      res.destroyed[i].type = b[res.destroyed[i].pos].type

\* One call kept a group of P that had no liberty on the input board and
\* removed another group of P that had none after the opponent's removals.
WitnessC14 ==
    /\ output # None
    /\ LET b == input[1].board
           P == output[1].lastPlayer
           res == output[1].result
       IN  /\ \E p \in DeadCells(b, P) : res.board[p].type = b[p].type
           /\ \E q \in DeadCells(AfterOpponentPhase(b, P), P) :
                 res.board[q].type = "empty"

\* C15: triggerAggression(board, origin) with an unsuppressed beam stone at
\* origin: for each of the 4 axis directions on its own, if walking outward
\* over non-empty, non-voided cells reaches another beam-carrying cell,
\* exactly the cells strictly between become empty with no abilities and
\* are reported destroyed with their original occupant; if the walk meets an
\* empty cell, a voided cell or the edge first, nothing changes in that
\* direction.  Everything else is unchanged.
Axes == {<<0, 1>>, <<1, 0>>, <<0, -1>>, <<-1, 0>>}

Ray(o, d, k) == <<o[1] + k * d[1], o[2] + k * d[2]>>

isStoneAt(board, p) ==
    p \in DOMAIN board /\ board[p].type # "empty" /\ board[p].type # "collapse"

\* The distances at which the walk from o in direction d reaches a beam
\* stone over stones that carry no beam (at most one distance).
BeamEnds(board, o, d) ==
    {k \in 1 .. BeamSize :
        /\ isStoneAt(board, Ray(o, d, k))
        /\ "aggression" \in board[Ray(o, d, k)].effects
        /\ \A j \in 1 .. (k - 1) :
              /\ isStoneAt(board, Ray(o, d, j))
              /\ "aggression" \notin board[Ray(o, d, j)].effects}

\* The cells strictly between o and the beam stone reached in direction d.
BeamPathIn(board, o, d) ==
    UNION {{Ray(o, d, j) : j \in 1 .. (k - 1)} : k \in BeamEnds(board, o, d)}

BeamPath(board, o) == UNION {BeamPathIn(board, o, d) : d \in Axes}

\* The origin carries a beam, holds a stone and has no opposing control
\* stone next to it that is active.
Opposing(t1, t2) ==
    /\ allegiance(t1) # "none"
    /\ allegiance(t2) # "none"
    /\ allegiance(t1) # allegiance(t2)

DestroyedSet(res) == {res.destroyed[i] : i \in 1 .. Len(res.destroyed)}

BeamDestroysBetween ==
    output # None =>
        LET board == input[1].board
            o == output[1].pos
            res == output[1].result
        IN  ("aggression" \in board[o].effects
                /\ ~ isNeutralized(board, o[1], o[2]))
            => \E path \in {BeamPath(board, o)} :
                  /\ res.board = Cleared(board, path)
                  /\ DestroyedSet(res) =
                        {[pos |-> p, type |-> board[p].type] : p \in path}
                  /\ Len(res.destroyed) = Cardinality(path)

\* The origin fired along the row and along the column while one of its
\* other directions ended on an empty cell, a voided cell or the edge.
WitnessC15 ==
    /\ output # None
    /\ LET board == input[1].board
           o == output[1].pos
           res == output[1].result
       IN  /\ \E d \in {<<0, 1>>, <<0, -1>>} : BeamPathIn(board, o, d) # {}
           /\ \E d \in {<<1, 0>>, <<-1, 0>>} : BeamPathIn(board, o, d) # {}
           /\ \E d \in Axes : BeamEnds(board, o, d) = {}
           /\ Len(res.destroyed) >= 3
           /\ res.board # board

\* C16: for any board with two colinear beam stones that have only
\* non-beam, non-empty stones between them, triggerAggression invoked on
\* one of the two destroys the same set of intervening cells as
\* triggerAggression invoked on the other.
Between(o, d, k) == {Ray(o, d, j) : j \in 1 .. (k - 1)}

\* o and the cell at distance k in direction d are beam stones with only
\* beamless stones between them.
BeamPair(board, o, d, k) ==
    /\ isStoneAt(board, o) /\ "aggression" \in board[o].effects
    /\ isStoneAt(board, Ray(o, d, k))
    /\ "aggression" \in board[Ray(o, d, k)].effects
    /\ \A p \in Between(o, d, k) :
          isStoneAt(board, p) /\ "aggression" \notin board[p].effects

Intervening(res, S) ==
    {p \in S : \E i \in 1 .. Len(res.destroyed) : res.destroyed[i].pos = p}

BeamSymmetry ==
    output # None =>
        LET board == input[1].board
            o == output[1].pos
            res == output[1].result
        IN  \A d \in Axes, k \in 1 .. BeamSize :
                BeamPair(board, o, d, k)
                    => Intervening(res, Between(o, d, k)) =
                          Intervening(triggerAggression(board, Ray(o, d, k)),
                                      Between(o, d, k))

\* C16 as amended: the same, for two beam stones on which isNeutralized
\* gives the same answer.
BeamSymmetryUnlessOneSuppressed ==
    output # None =>
        LET board == input[1].board
            o == output[1].pos
            res == output[1].result
        IN  \A d \in Axes, k \in 1 .. BeamSize :
                (/\ BeamPair(board, o, d, k)
                 /\ isNeutralized(board, o[1], o[2]) =
                       isNeutralized(board, Ray(o, d, k)[1], Ray(o, d, k)[2]))
                    => Intervening(res, Between(o, d, k)) =
                          Intervening(triggerAggression(board, Ray(o, d, k)),
                                      Between(o, d, k))

\* The call was made on one of two active beam stones with two stones
\* between them, and destroyed both.
WitnessC16 ==
    /\ output # None
    /\ LET board == input[1].board
           o == output[1].pos
           res == output[1].result
       IN  \E d \in Axes, k \in 1 .. BeamSize :
              /\ BeamPair(board, o, d, k)
              /\ ~ isNeutralized(board, o[1], o[2])
              /\ ~ isNeutralized(board, Ray(o, d, k)[1], Ray(o, d, k)[2])
              /\ Cardinality(Between(o, d, k)) >= 2
              /\ Intervening(res, Between(o, d, k)) = Between(o, d, k)

\* C17: on a 5x5 board whose only stones are attacker beam stones at (2,0)
\* and (2,4) and one defender stone at (2,2), the cells (2,1) and (2,3)
\* being empty, triggerAggression invoked on (2,0) destroys exactly the
\* defender stone at (2,2) and nothing else.
BeamKillBoard ==
    [p \in (0 .. 4) \X (0 .. 4) |->
        IF p \in {<<2, 0>>, <<2, 4>>} THEN stone("black", {"aggression"})
        ELSE IF p = <<2, 2>> THEN stone("white", {})
        ELSE EmptyCell]

BeamKillScenario ==
    (/\ output # None
     /\ input[1].board = BeamKillBoard
     /\ output[1].pos = <<2, 0>>)
        => /\ output[1].result.destroyed =
                 << [pos |-> <<2, 2>>, type |-> "white"] >>
           /\ output[1].result.board = Cleared(BeamKillBoard, {<<2, 2>>})

\* ------------------------------------------------------------------------
\* Claims about suppression
\* ------------------------------------------------------------------------
Adjacent(board, p) == {q \in DOMAIN board : Manhattan(p, q) = 1}

\* C18: no ability of a suppressed stone fires: whenever isNeutralized is
\* true of a stone on the board being evaluated, it converts no neighbour
\* in spreadEmpathy, destroys no cell as the origin of triggerAggression and
\* is not converted to resistance by spreadResistance.
ActiveEmpathySources(board, activePlayer) ==
    {p \in DOMAIN board :
        /\ allegiance(board[p].type) = activePlayer
        /\ "empathy" \in board[p].effects
        /\ ~ isNeutralized(board, p[1], p[2])}

SuppressedStoneIsInert ==
    output # None =>
        LET board == input[1].board
            arg == output[1].arg
            res == output[1].result
        IN  /\ output[1].fn = "spreadEmpathy" =>
                 \A n \in DOMAIN board :
                    res[n] # board[n] =>
                       Adjacent(board, n) \cap ActiveEmpathySources(board, arg) # {}
            /\ output[1].fn = "triggerAggression" =>
                 (isNeutralized(board, arg[1], arg[2])
                     => res.destroyed = <<>> /\ res.board = board)
            /\ output[1].fn = "spreadResistance" =>
                 \A p \in DOMAIN board :
                    isNeutralized(board, p[1], p[2]) => res[p] = board[p]

\* spreadEmpathy was called for the owner of a suppressed empathy stone that
\* has a neutral stone next to it, and that stone was left as it was.
WitnessC18 ==
    /\ output # None
    /\ output[1].fn = "spreadEmpathy"
    /\ LET board == input[1].board
           res == output[1].result
       IN  \E p \in DOMAIN board :
              /\ allegiance(board[p].type) = output[1].arg
              /\ "empathy" \in board[p].effects
              /\ isNeutralized(board, p[1], p[2])
              /\ \E n \in Adjacent(board, p) :
                    /\ board[n].type = Other(output[1].arg)
                    /\ board[n].effects = {}
                    /\ res[n] = board[n]

\* C19: for any two orthogonally adjacent control stones of opposing sides
\* (resistance counting as the white side) isNeutralized returns true for
\* both, whatever surrounds them; and a stone without control is
\* neutralized only by an adjacent opposing control stone that has no
\* opposing control stone adjacent to itself.
OpposingControls(board, p) ==
    {q \in Adjacent(board, p) :
        /\ "control" \in board[q].effects
        /\ Opposing(board[p].type, board[q].type)}

SuppressionSymmetry ==
    (output # None /\ output[1].fn = "isNeutralized") =>
        LET board == input[1].board
            p == output[1].arg
            res == output[1].result
        IN  /\ ("control" \in board[p].effects /\ OpposingControls(board, p) # {})
                  => res = TRUE
            /\ (isStoneAt(board, p) /\ "control" \notin board[p].effects)
                  => (res = TRUE <=>
                         \E q \in OpposingControls(board, p) :
                            OpposingControls(board, q) = {})

\* isNeutralized was asked about a black control stone that has a white
\* control stone next to it, and a plain resistance stone sits on another
\* side of the control stone asked about.
WitnessC19 ==
    /\ output # None
    /\ output[1].fn = "isNeutralized"
    /\ output[1].result = TRUE
    /\ LET board == input[1].board
           p == output[1].arg
       IN  /\ "control" \in board[p].effects
           /\ \E q \in OpposingControls(board, p) : board[q].type = "white"
           /\ \E s \in Adjacent(board, p) :
                 /\ board[s].type = "resistance"
                 /\ board[s].effects = {}
                 /\ ~ isNeutralized(board, s[1], s[2])

\* ------------------------------------------------------------------------
\* Claims about the resolution event
\* ------------------------------------------------------------------------
DestroyedCells(list) == {list[i].pos : i \in 1 .. Len(list)}

\* The type reported for the cell p (by the last entry that names it).
DestroyedTypeAt(list, p) ==
    list[CHOOSE i \in 1 .. Len(list) :
            /\ list[i].pos = p
            /\ \A j \in (i + 1) .. Len(list) : list[j].pos # p].type

ResidueOf(t, turnCount) ==
    Some([type |-> IF t = "black" THEN "black" ELSE "white",
          turnCreated |-> turnCount])

\* C20: handleResolutionEvent with exactly 3 distinct destroyed cells never
\* produces a voided cell; with exactly 4 it produces exactly one voided
\* cell and the remaining 3 destroyed cells all carry residue tagged with
\* the side of the stone destroyed there (black -> black, white or
\* resistance -> white) and turnCreated = the current turnCount.
EscalationThreshold ==
    output # None =>
        LET board == input[1].board
            list == input[1].destroyedList
            D == DestroyedCells(list)
            res == output[1].result
            newVoids == {p \in Pos : /\ res[p].type = "collapse"
                                     /\ board[p].type # "collapse"}
        IN  /\ Cardinality(D) = 3 => newVoids = {}
            /\ Cardinality(D) = 4 =>
                  /\ Cardinality(newVoids) = 1
                  /\ Cardinality(D \ newVoids) = 3
                  /\ \A p \in D \ newVoids :
                        /\ res[p].type = "empty"
                        /\ res[p].aftershock =
                              ResidueOf(DestroyedTypeAt(list, p),
                                        input[1].turnCount)

RECURSIVE SumOver(_, _)
SumOver(S, k) ==
    IF S = {} THEN 0
    ELSE LET p == CHOOSE q \in S : TRUE IN p[k] + SumOver(S \ {p}, k)

\* Whether cell a is at most as far as cell b from the arithmetic mean of
\* the cells D (Manhattan distance; both sides multiplied by the count).
NoFarther(D, a, b) ==
    LET n == Cardinality(D)
        far(q) == Abs(n * q[1] - SumOver(D, 1)) + Abs(n * q[2] - SumOver(D, 2))
    IN  far(a) <= far(b)

NearestToMean(D) == {a \in Pos : \A b \in Pos : NoFarther(D, a, b)}

\* C21: when at least 4 distinct cells are destroyed, the voided cell
\* chosen by handleResolutionEvent is the board cell with minimal Manhattan
\* distance to the arithmetic mean (row, column) of the destroyed
\* coordinates, ties broken by lowest column and then lowest row; no other
\* cell is voided by the call.
VoidAtCentroid ==
    output # None =>
        LET board == input[1].board
            D == DestroyedCells(input[1].destroyedList)
            res == output[1].result
        IN  Cardinality(D) >= CollapseThreshold =>
                \E t \in NearestToMean(D) :
                    /\ \A q \in NearestToMean(D) :
                          t[2] < q[2] \/ (t[2] = q[2] /\ t[1] <= q[1])
                    /\ res[t] = [type |-> "collapse", effects |-> {},
                                 aftershock |-> None]
                    /\ \A p \in Pos \ {t} :
                          res[p].type = "collapse" => board[p].type = "collapse"

\* Four destroyed cells, reported with a repeated entry, whose mean is
\* equally near to several cells, the voided one holding a stone before.
WitnessC21 ==
    /\ output # None
    /\ LET D == DestroyedCells(input[1].destroyedList)
       IN  /\ Cardinality(D) = CollapseThreshold
           /\ Len(input[1].destroyedList) > Cardinality(D)
           /\ Cardinality(NearestToMean(D)) > 1
           /\ \E t \in NearestToMean(D) :
                 /\ output[1].result[t].type = "collapse"
                 /\ input[1].board[t].type \in {"black", "white", "resistance"}

\* ------------------------------------------------------------------------
\* Claims about voided cells and the spreading functions
\* ------------------------------------------------------------------------
BoardCalls == {"spreadEmpathy", "spreadResistance", "triggerAggression"}

\* The board a call of one of the board functions returned.
ResultBoard(out) ==
    IF out.fn = "triggerAggression" THEN out.result.board ELSE out.result

\* C22: a voided cell is permanent: viral spread, territorial spread and
\* a beam trigger never change the occupant of a cell that is voided.
VoidIsPermanent ==
    (output # None /\ output[1].fn \in BoardCalls) =>
        \A p \in Pos :
            input[1].board[p].type = "collapse" =>
                ResultBoard(output[1])[p].type = "collapse"

\* The cells the viral spread of activePlayer converts: next to an
\* unsuppressed viral stone of activePlayer, holding a stone of the other
\* side (not resistance) that carries no ability.
ViralEligible(board, activePlayer) ==
    {n \in DOMAIN board :
        /\ board[n].type \in {"black", "white"} \ {activePlayer}
        /\ board[n].effects = {}
        /\ \E p \in Adjacent(board, n) :
              p \in ActiveEmpathySources(board, activePlayer)}

\* C23: spreadEmpathy(board, P) changes exactly the cells that are adjacent
\* to an unsuppressed viral stone owned by P, are non-empty, belong to
\* neither P nor the reinforcement faction and carry zero abilities: each
\* becomes owned by P with the viral ability; every other cell (own stones,
\* resistance, voided cells, ability-bearing stones) is unchanged.
ViralSpreadExact ==
    (output # None /\ output[1].fn = "spreadEmpathy") =>
        LET board == input[1].board
            P == output[1].arg
            res == output[1].result
        IN  \A p \in Pos :
                IF p \in ViralEligible(board, P)
                THEN res[p] = [board[p] EXCEPT !.type = P,
                                               !.effects = {"empathy"}]
                ELSE res[p] = board[p]

\* The same with voided cells left aside: what happens to own stones.
ViralSpreadSparesOwnStones ==
    (output # None /\ output[1].fn = "spreadEmpathy") =>
        \A p \in Pos :
            input[1].board[p].type = output[1].arg =>
                output[1].result[p] = input[1].board[p]

NoBlackStones(board) == \A p \in Pos : board[p].type # "black"

DefenderWins == [gameOver |-> TRUE, winner |-> "white"]

\* C25: checkWin on any board with zero black stones and turnCount = 2
\* (more generally turnCount > 1) reports gameOver = true with winner =
\* white.
AnnihilationGivesDefender ==
    output # None =>
        ((NoBlackStones(input[1].board) /\ output[1].turnCount > 1)
            => output[1].result = DefenderWins)

\* C25 as amended: the same on boards that hold at least one resistance
\* stone.
AnnihilationGivesDefenderWithResistance ==
    output # None =>
        ((/\ NoBlackStones(input[1].board)
          /\ ~ NoResistance(input[1].board)
          /\ output[1].turnCount > 1)
            => output[1].result = DefenderWins)

\* checkWin was asked at turnCount = 2, with white to move, about a board
\* with resistance, with empty cells and without a black stone.
WitnessC25 ==
    /\ output # None
    /\ output[1].turnCount = 2
    /\ output[1].currentPlayer = "white"
    /\ NoBlackStones(input[1].board)
    /\ ~ NoResistance(input[1].board)
    /\ \E p \in Pos : input[1].board[p].type = "empty"
    /\ output[1].result = DefenderWins

\* ------------------------------------------------------------------------
\* Claims about territorial spread
\* ------------------------------------------------------------------------
\* The stones spreadResistance may convert: white, not neutralized, without
\* abilities, with at least one resistance neighbour.
Eligible(board) ==
    {p \in DOMAIN board :
        /\ board[p].type = "white"
        /\ ~ isNeutralized(board, p[1], p[2])
        /\ board[p].effects = {}
        /\ \E q \in Adjacent(board, p) : board[q].type = "resistance"}

ResistanceCount(board) ==
    Cardinality({p \in DOMAIN board : board[p].type = "resistance"})

\* The cells on which two boards differ.
Changed(b1, b2) == {p \in DOMAIN b1 : b1[p] # b2[p]}

SpreadConvertsOne ==
    (output # None /\ output[1].fn = "spreadResistance") =>
        LET board == input[1].board
            res == output[1].result
        IN  IF Eligible(board) = {} THEN res = board
            ELSE \E t \in Eligible(board) :
                    /\ Changed(board, res) = {t}
                    /\ res[t] = [board[t] EXCEPT !.type = "resistance"]

CommitAddsAtMostOne ==
    (last' = "commitTurn" /\ store'.turnCount = store.turnCount + 1) =>
        /\ ResistanceCount(store'.board) <= ResistanceCount(store.board) + 1
        /\ ResistanceCount(store'.board) > ResistanceCount(store.board)
              => (store.turn = "black" /\ store'.turn = "white")

\* C24: spreadResistance converts exactly one stone to resistance per call
\* when at least one eligible stone exists, the converted stone being an
\* eligible one and no other cell changing; when no stone is eligible the
\* board is returned unchanged.  Hence one commitTurn raises the number of
\* resistance stones by at most 1, and only when the turn passes to white.
SpreadOneStone == [] SpreadConvertsOne /\ [][CommitAddsAtMostOne]_vars

\* A commit has passed the turn to white and raised the number of
\* resistance stones by one, while another white stone that was on the board
\* before the turn is still eligible: the spread inside the commit had more
\* than one candidate and converted one of them.
WitnessC24 ==
    /\ input = None
    /\ last = "commitTurn"
    /\ store.turn = "white"
    /\ Len(store.history) > 0
    /\ LET before == store.history[Len(store.history)].board
       IN  /\ ResistanceCount(store.board) = ResistanceCount(before) + 1
           /\ \E p \in Eligible(store.board) :
                 /\ before[p].type = "white"
                 /\ p \in Eligible(before)

\* ------------------------------------------------------------------------
\* Claims about the beams fired at commit
\* ------------------------------------------------------------------------
\* The coordinates swapped during the turn being committed: those of the
\* swapMove that was the last call before the commit.
SwappedThisTurn == IF last = "swapMove" THEN Range(store.swappedPositions[1]) ELSE {}

\* The beam stones the commit has to trigger: those of the committing side
\* and those on a coordinate swapped this turn.
ShouldFire ==
    {p \in Pos :
        /\ "aggression" \in store.board[p].effects
        /\ (store.board[p].type = store.turn \/ p \in SwappedThisTurn)}

\* The stones of T triggered one after the other in row-major order.
RECURSIVE FireInOrder(_, _, _, _)
FireInOrder(b, destroyed, T, i) ==
    IF i > Len(ScanOrder) THEN [board |-> b, destroyed |-> destroyed]
    ELSE IF ScanOrder[i] \in T
        THEN LET res == triggerAggression(b, ScanOrder[i])
             IN  FireInOrder(res.board, destroyed \o res.destroyed, T, i + 1)
    ELSE FireInOrder(b, destroyed, T, i + 1)

\* The boards a commit stores when exactly the stones of T are triggered.
BoardsAfterFiring(T) ==
    LET fired == FireInOrder(store.board, <<>>, T, 1)
        cap1 == checkCaptures(fired.board, store.turn)
        spread == spreadEmpathy(cap1.board, Other(store.turn))
        spreads == IF Other(store.turn) = "white" THEN spreadResistance(spread)
                   ELSE {spread}
    IN  {commitResolve(store, b, fired.destroyed \o cap1.destroyed).board :
            b \in spreads}

CommitStep == last' = "commitTurn" /\ store'.turnCount = store.turnCount + 1

\* Every cell destroyed by the beams that have to fire is empty or voided
\* after the commit.
FiredBeamsDestroy ==
    CommitStep =>
        \A d \in DestroyedSet(FireInOrder(store.board, <<>>, ShouldFire, 1)) :
            store'.board[d.pos].type \in {"empty", "collapse"}

\* In a game that is not over, the commit stores the board that results
\* from triggering exactly the beams that have to fire.
ExactlyTheseFire ==
    (CommitStep /\ ~ checkWin(store.board, store.turn, store.turnCount).gameOver)
        => store'.board \in BoardsAfterFiring(ShouldFire)

SearchIsDeterministic ==
    output # None => Cardinality(output[1].result) = 1

\* ------------------------------------------------------------------------
\* C29: where territorial spread has at most one eligible stone at every
\* node of the search tree, minimax with the full window returns the value
\* of an exhaustive minimax of the same depth over the same transitions,
\* which takes the empty cells as a set and never prunes.
\* ------------------------------------------------------------------------
EmptyCells(board) == {p \in DOMAIN board : board[p].type = "empty"}

\* The board on which the simulated turn of white starts, before the
\* territorial spread: black's stone placed, captures and viral spread done.
BeforeSpread(board, m) ==
    spreadEmpathy(
        checkCaptures([board EXCEPT ![m].type = "black"], "black").board,
        "white")

RECURSIVE SpreadIsForced(_, _, _)
SpreadIsForced(board, depth, isMaximizing) ==
    \/ depth = 0
    \/ \A m \in EmptyCells(board) :
          /\ isMaximizing \/ Cardinality(Eligible(BeforeSpread(board, m))) <= 1
          /\ \A next \in nextTurnBoards(board, m, isMaximizing) :
                SpreadIsForced(next, depth - 1, ~ isMaximizing)

SetMax(S) == CHOOSE x \in S : \A y \in S : y <= x

SetMin(S) == CHOOSE x \in S : \A y \in S : x <= y

RECURSIVE Exhaustive(_, _, _)
Exhaustive(board, depth, isMaximizing) ==
    IF depth = 0 \/ EmptyCells(board) = {} THEN evaluateBoardDeep(board)
    ELSE LET values == {Exhaustive(next, depth - 1, ~ isMaximizing) :
                           next \in UNION {nextTurnBoards(board, m, isMaximizing) :
                                              m \in EmptyCells(board)}}
         IN  IF isMaximizing THEN SetMax(values) ELSE SetMin(values)

PruningKeepsTheValue ==
    (/\ output # None
     /\ SpreadIsForced(input[1].board, output[1].depth, output[1].isMaximizing))
    => output[1].result = {Exhaustive(input[1].board, output[1].depth,
                                      output[1].isMaximizing)}

\* A search of full depth from black's move over at least three empty
\* cells, which the ordering visits in another order than the scan, with a
\* stone converted by the spread after some move.
WitnessC29 ==
    /\ output # None
    /\ output[1].depth = MaxSearchDepth
    /\ ~ output[1].isMaximizing
    /\ SpreadIsForced(input[1].board, output[1].depth, FALSE)
    /\ Cardinality(EmptyCells(input[1].board)) >= 3
    /\ scoredMoves(input[1].board) # validMoves(input[1].board, 1)
    /\ \E m \in EmptyCells(input[1].board) :
          Cardinality(Eligible(BeforeSpread(input[1].board, m))) = 1
    /\ output[1].result = {Exhaustive(input[1].board, MaxSearchDepth, FALSE)}

\* ------------------------------------------------------------------------
\* C30: every move runBehaviorTree returns passes the hard filters on the
\* current state: its target is empty; it is not both isolated from white
\* and resistance stones and between two black beam stones on one axis;
\* placing it restores neither of the last two history boards; and with a
\* priority below 96 it is not adjacent to an unsuppressed opposing viral
\* stone. The move returned is that of a behaviour of highest priority among
\* those that pass the chance gate, yield a candidate and pass the filters,
\* and null is returned only when there is none.
\* ------------------------------------------------------------------------
Target(m) == <<m.r, m.c>>

TargetIsEmpty(m) == store.board[Target(m)].type = "empty"

Isolated(m) ==
    \A n \in Adjacent(store.board, Target(m)) :
       store.board[n].type \notin {"white", "resistance"}

IsBlackBeam(p) ==
    store.board[p].type = "black" /\ "aggression" \in store.board[p].effects

\* The cells strictly between two cells of one row or one column.
StrictlyBetween(a, b) ==
    {p \in Pos :
        \/ /\ a[1] = b[1] /\ p[1] = a[1]
           /\ Min(a[2], b[2]) < p[2] /\ p[2] < Max(a[2], b[2])
        \/ /\ a[2] = b[2] /\ p[2] = a[2]
           /\ Min(a[1], b[1]) < p[1] /\ p[1] < Max(a[1], b[1])}

\* A black beam stone at a on the axis of the target, with nothing but
\* stones between the two.
BeamReaches(a, m) ==
    /\ IsBlackBeam(a)
    /\ a # Target(m)
    /\ \A p \in StrictlyBetween(a, Target(m)) :
          store.board[p].type \notin {"empty", "collapse"}

BetweenBlackBeams(m) ==
    \E a, b \in Pos :
       /\ BeamReaches(a, m) /\ BeamReaches(b, m)
       /\ \/ a[1] = m.r /\ b[1] = m.r /\ a[2] < m.c /\ m.c < b[2]
          \/ a[2] = m.c /\ b[2] = m.c /\ a[1] < m.r /\ m.r < b[1]

\* Placing m gives the board of history entry i: the same type and the same
\* abilities on every cell.
Restores(m, i) ==
    \A p \in Pos :
       LET old == store.history[i].board[p]
       IN  IF p = Target(m)
           THEN /\ old.type = store.turn
                /\ old.effects = store.board[p].effects
                                    \cup (IF m.effect = "null" THEN {} ELSE {m.effect})
           ELSE /\ old.type = store.board[p].type
                /\ old.effects = store.board[p].effects

LastTwo == {i \in 1 .. Len(store.history) : i > Len(store.history) - 2}

NextToOpposingViral(m) ==
    \E n \in Adjacent(store.board, Target(m)) :
       /\ store.board[n].type \in Player \ {store.turn}
       /\ "empathy" \in store.board[n].effects
       /\ ~ isNeutralized(store.board, n[1], n[2])

PassesHardFilters(m, priority) ==
    /\ TargetIsEmpty(m)
    /\ ~ (Isolated(m) /\ BetweenBlackBeams(m))
    /\ \A i \in LastTwo : ~ Restores(m, i)
    /\ priority < 96 => ~ NextToOpposingViral(m)

\* Behaviour k of the config passes its chance gate, yields a candidate and
\* the candidate passes the filters.
Survives(k) ==
    /\ output[1].rolls[k] <= input[1].config[k].triggerChance
    /\ output[1].generated[k] # None
    /\ PassesHardFilters(output[1].generated[k][1], input[1].config[k].priority)

ReturnedMovePassesFilters ==
    output # None =>
        IF output[1].result = None
        THEN \A k \in DOMAIN input[1].config : ~ Survives(k)
        ELSE \E k \in DOMAIN input[1].config :
                /\ Survives(k)
                /\ output[1].result = output[1].generated[k]
                /\ \A j \in DOMAIN input[1].config :
                      Survives(j) =>
                          input[1].config[j].priority <= input[1].config[k].priority

\* The behaviour of priority 100 comes second in the config and survives;
\* the first, of priority 90, yields another move that survives too; the
\* move of the second is returned. The board that its move would restore is
\* the third last of the history.
WitnessC30 ==
    /\ output # None
    /\ input[1].config[1].priority = 90
    /\ input[1].config[2].priority = 100
    /\ Survives(1) /\ Survives(2)
    /\ output[1].generated[1] # output[1].generated[2]
    /\ output[1].result = output[1].generated[2]
    /\ Len(store.history) = 3
    /\ Restores(output[1].result[1], 1)

\* ------------------------------------------------------------------------
\* C31: with the default configuration runBehaviorTree returns a move
\* whenever the board has an empty cell, whatever the chance gates draw.
\* ------------------------------------------------------------------------
MoveAlwaysProduced ==
    (output # None /\ \E p \in Pos : store.board[p].type = "empty")
        => output[1].result # None

\* ------------------------------------------------------------------------
\* C32: when the move the selector returns places a beam stone, the beam
\* triggered at the placed cell destroys no resistance stone and more black
\* stones than white stones.
\* ------------------------------------------------------------------------
\* The board with white's stone of the move m placed.
Placed(m) ==
    [store.board EXCEPT ![<<m.r, m.c>>] =
        stone("white", IF m.effect = "null" THEN {} ELSE {m.effect})]

BeamOf(m) == triggerAggression(Placed(m), <<m.r, m.c>>).destroyed

DestroyedOfType(m, t) ==
    Cardinality({i \in 1 .. Len(BeamOf(m)) : BeamOf(m)[i].type = t})

BeamPlacementIsNetPositive ==
    (/\ output # None
     /\ output[1].result # None
     /\ output[1].result[1].effect = "aggression")
    => /\ DestroyedOfType(output[1].result[1], "resistance") = 0
       /\ DestroyedOfType(output[1].result[1], "black")
             > DestroyedOfType(output[1].result[1], "white")

\* ------------------------------------------------------------------------
\* C33
\* ------------------------------------------------------------------------
\* The boards the search path simulates for an evaluation: its move with
\* its effect, and its swap if the effect is manipulation.
SimulatedBoards(state, e) ==
    IF e.effect = "manipulation" /\ e.swap # None
    THEN simulateSwap(state, <<e.r, e.c>>, e.swap[1][2])
    ELSE simulatePlacement(state, <<e.r, e.c>>, e.effect)

\* The penalty of a simulated board, in doubled score points: 1000 if it is
\* the board one state back in history, 800 if it is the board two back.
OscillationPenalty(state, board) ==
    LET n == Len(state.history)
    IN  (IF n > 0 /\ state.history[n].board = board THEN 2 * 1000 ELSE 0)
        + (IF n > 1 /\ state.history[n - 1].board = board THEN 2 * 800 ELSE 0)

\* C33: in the search path of getAIDecision the score of every evaluated
\* move is the search value of its simulated board less the penalty of
\* that board: 1000 if it equals the board one state back in history and
\* 800 if it equals the board two states back.
RepeatedBoardIsPenalised ==
    output # None =>
        \A k \in DOMAIN output[1].evaluations :
            LET e == output[1].evaluations[k]
                depth == searchDepth(input[1].difficulty,
                                     validMoves(store.board, 1))
            IN  \E b \in SimulatedBoards(store, e) :
                   e.score + OscillationPenalty(store, b)
                      \in minimax(b, depth - 1, - Infinity, Infinity, FALSE)

\* ------------------------------------------------------------------------
\* C34
\* ------------------------------------------------------------------------
\* C34: every move getAIDecision returns for the side to move is accepted
\* by makeMove on the same state: its cell is empty and not blocked by an
\* active residue of the mover, and its ability, if any, is in the mover's
\* inventory.
DecisionIsAccepted ==
    (output # None /\ output[1].result # None) =>
        LET m == output[1].result[1]
        IN  /\ store.board[<<m.r, m.c>>].type = "empty"
            /\ ~ aftershockBlocks(store, <<m.r, m.c>>)
            /\ ~ inventoryLacks(store.inventory, store.turn, m.effect)
            /\ makeMove(store, m.r, m.c, m.effect).ok

\* ------------------------------------------------------------------------
\* C36
\* ------------------------------------------------------------------------
\* C36: handleResolutionEvent changes only cells of its destroyed list: the
\* cell it voids is one of the destroyed coordinates, and every cell that
\* is not in the list (a stone that survived, a resistance stone) comes
\* back as it was.
EscalationTouchesOnlyDestroyed ==
    output # None =>
        LET board == input[1].board
            D == DestroyedCells(input[1].destroyedList)
            res == output[1].result
        IN  /\ \A p \in Pos : res[p].type = "collapse" /\ board[p].type # "collapse"
                                 => p \in D
            /\ \A p \in Pos \ D : res[p] = board[p]

\* ------------------------------------------------------------------------
\* C35
\* ------------------------------------------------------------------------
\* A commitTurn step that ran the resolution pipeline: the game was not
\* over for the committing side on the stored board.
PipelineRan ==
    /\ last' = "commitTurn"
    /\ store' # store
    /\ ~ checkWin(store.board, store.turn, store.turnCount).gameOver

\* C35: after every commitTurn that ran the resolution pipeline no group
\* on the stored board is without an adjacent empty cell; the escalation
\* step leaves every surviving group a liberty.
CommitLeavesNoDeadGroup ==
    [][PipelineRan => ~ HasDeadGroup(store'.board)]_vars

\* ------------------------------------------------------------------------
\* C37
\* ------------------------------------------------------------------------
\* The boards the resolution pipeline of commitTurn arrives at from state.
ResolvedBoards(state) ==
    LET mid == commitSpread(state)
        spreads == IF Other(state.turn) = "white"
                   THEN spreadResistance(mid.board)
                   ELSE {mid.board}
    IN  {commitResolve(state, b, mid.destroyed).board : b \in spreads}

\* C37: every placement has its effects resolved: the commitTurn after a
\* makeMove stores a board of the resolution pipeline (beams, captures,
\* spreading, escalation), also when the placement filled the last empty
\* cell; and no makeMove of black declares white the winner, the win by
\* 'no empty cells' being for a board on which black has yet to place.
PlacementIsResolved ==
    [][/\ (last' = "commitTurn" /\ store' # store)
            => store'.board \in ResolvedBoards(store)
       /\ (last' = "makeMove" /\ store.turn = "black")
            => ~ (store'.gameOver /\ store'.winner = "white")]_vars

\* ------------------------------------------------------------------------
\* C38
\* ------------------------------------------------------------------------
\* The groups of stones of a board: voided and empty cells are in none.
StoneGroups(b) == {GroupOf(b, p) : p \in {q \in Pos : isStoneType(b[q].type)}}

RECURSIVE SumOfGroups(_, _)
SumOfGroups(b, groups) ==
    IF groups = {} THEN 0
    ELSE LET G == CHOOSE g \in groups : TRUE
             p == CHOOSE q \in G : TRUE
         IN  groupScore(b, isWhiteResistance(b[p].type), G)
             + SumOfGroups(b, groups \ {G})

\* C38: evaluateBoardDeep counts every stone in exactly one group and never
\* a voided cell as a stone: its score is the sum of the group terms over
\* the groups of stones, each once, plus the positional terms, so a voided
\* cell counts like any other blocker that is no liberty.
EveryStoneCountedOnce ==
    output # None =>
        output[1].result =
            SumOfGroups(input[1].board, StoneGroups(input[1].board))
            + positionalSum(input[1].board, 1)

\* ------------------------------------------------------------------------
\* C39
\* ------------------------------------------------------------------------
\* What running call a and then call b leaves, each as a whole, from the
\* state start: whether a and b returned a state, and the stored state.
OneAfterTheOther(ops, a, b, start) ==
    {[ok |-> [i \in OverlapCalls |-> IF i = a THEN ra.ok ELSE rb.ok],
      stored |-> rb.state] :
        <<ra, rb>> \in UNION {{<<x, y>> : y \in entryPoint(ops[b], x.state)} :
                                  x \in entryPoint(ops[a], start)}}

\* C39: entry-point calls on one game id are atomic with respect to each
\* other: when two calls have both returned, the stored state and the
\* calls' successes are those of running the two calls one after the other
\* in some order, so no successful call's update is lost.
CallsAreAtomic ==
    (\A i \in OverlapCalls : output[1][i].phase = "returned") =>
        [ok |-> [i \in OverlapCalls |-> output[1][i].ok], stored |-> store]
            \in OneAfterTheOther(input[1].ops, 1, 2, input[1].start)
                \cup OneAfterTheOther(input[1].ops, 2, 1, input[1].start)

====
